---------------------------- MODULE Spec2Model ----------------------------
(***************************************************************************)
(* A model of the history-slackbot: the schedule calculator (ParseCron,    *)
(* NextRunTime), the scheduler (Start, StartAt), the process around it     *)
(* (main) and the feed aggregation (FetchMultipleFeeds).                   *)
(*                                                                         *)
(* Strings are sequences of one-character strings, instants are seconds    *)
(* since 00:00:00 UTC of day 0, durations are seconds.                     *)
(***************************************************************************)
EXTENDS Integers, Sequences, FiniteSets, TLC

(***************************************************************************)
(* Bounds of the model.                                                    *)
(***************************************************************************)
\* instants past which the clock of the scheduler model is not advanced
MaxTime == 316800
\* the largest number of job runs the scheduler model starts
MaxRuns == 3
\* the largest number of feed URLs and of items in one feed
MaxFeeds == 3
MaxItems == 3

(***************************************************************************)
(* Characters and strings.                                                 *)
(***************************************************************************)
Digits == {"0", "1", "2", "3", "4", "5", "6", "7", "8", "9"}

DigitVal(c) ==
    CASE c = "0" -> 0 [] c = "1" -> 1 [] c = "2" -> 2 [] c = "3" -> 3
      [] c = "4" -> 4 [] c = "5" -> 5 [] c = "6" -> 6 [] c = "7" -> 7
      [] c = "8" -> 8 [] c = "9" -> 9

\* fmt's isSpace, on the characters of the model
isSpace(c) == c \in {" ", "\t", "\r", "\n"}

\* strconv.ParseInt(tok, 10, 64) of a token made of an optional sign and digits
RECURSIVE DecVal(_, _)
DecVal(ds, acc) ==
    IF ds = <<>> THEN acc ELSE DecVal(Tail(ds), 10 * acc + DigitVal(Head(ds)))

ParseInt(tok) ==
    IF Head(tok) = "-" THEN 0 - DecVal(Tail(tok), 0)
    ELSE IF Head(tok) = "+" THEN DecVal(Tail(tok), 0)
    ELSE DecVal(tok, 0)

(***************************************************************************)
(* fmt.Sscanf(cronExpr, "%d %d %s %s %s", ...) as fmt's scanner runs it.   *)
(* A scanner position is the index of the next character to read; every   *)
(* step returns the new position and whether it raised an error.           *)
(***************************************************************************)
\* ss.SkipSpace with nlIsSpace = false: a newline is an error
RECURSIVE SkipSpace(_, _)
SkipSpace(s, i) ==
    IF i > Len(s) THEN [pos |-> i, err |-> FALSE]
    ELSE IF s[i] = "\r" /\ i + 1 <= Len(s) /\ s[i + 1] = "\n" THEN SkipSpace(s, i + 1)
    ELSE IF s[i] = "\n" THEN [pos |-> i + 1, err |-> TRUE]
    ELSE IF ~isSpace(s[i]) THEN [pos |-> i, err |-> FALSE]
    ELSE SkipSpace(s, i + 1)

\* the position after the longest run of characters of the set cs from i
RECURSIVE AcceptRun(_, _, _)
AcceptRun(s, i, cs) ==
    IF i <= Len(s) /\ s[i] \in cs THEN AcceptRun(s, i + 1, cs) ELSE i

\* the position after the spaces other than newline from i
RECURSIVE SkipBlanks(_, _)
SkipBlanks(s, i) ==
    IF i <= Len(s) /\ isSpace(s[i]) /\ s[i] # "\n" THEN SkipBlanks(s, i + 1) ELSE i

\* ss.advance on a single space of the format: the input must have at
\* least one space there (or be at its end), and a newline does not match
advance(s, i) ==
    IF i > Len(s) THEN [pos |-> i, err |-> FALSE]
    ELSE IF ~isSpace(s[i]) \/ s[i] = "\n" THEN [pos |-> i, err |-> TRUE]
    ELSE [pos |-> SkipBlanks(s, i), err |-> FALSE]

\* the verb %d: skip spaces, then an optional sign and at least one digit
scanInt(s, i) ==
    LET sk == SkipSpace(s, i)
        p  == sk.pos
        q  == IF p <= Len(s) /\ s[p] \in {"+", "-"} THEN p + 1 ELSE p
        e  == AcceptRun(s, q, Digits)
    IN  IF sk.err \/ p > Len(s) \/ e = q
        THEN [pos |-> p, err |-> TRUE, val |-> 0]
        ELSE [pos |-> e, err |-> FALSE, val |-> ParseInt(SubSeq(s, p, e - 1))]

\* the verb %s: skip spaces, then the run of non-space characters
scanString(s, i) ==
    LET sk == SkipSpace(s, i)
        p  == sk.pos
    IN  IF sk.err \/ p > Len(s)
        THEN [pos |-> p, err |-> TRUE]
        ELSE [pos |-> AcceptRun(s, p, {s[k] : k \in 1..Len(s)} \ {" ", "\t", "\r", "\n"}),
              err |-> FALSE]

\* the three %s verbs that follow the two integers, each after a space of
\* the format; k is the number of them still to scan
RECURSIVE scanStrings(_, _, _, _)
scanStrings(s, i, k, n) ==
    IF k = 0 THEN [n |-> n, err |-> FALSE]
    ELSE LET a == advance(s, i)
             t == scanString(s, a.pos)
         IN  IF a.err \/ t.err THEN [n |-> n, err |-> TRUE]
             ELSE scanStrings(s, t.pos, k - 1, n + 1)

\* n and err as Sscanf returns them, with the two integers it stored
\* (a variable that was not scanned keeps its zero value)
Sscanf(s) ==
    LET m == scanInt(s, 1)
        a == advance(s, m.pos)
        h == scanInt(s, a.pos)
    IN  IF m.err THEN [n |-> 0, err |-> TRUE, minute |-> 0, hour |-> 0]
        ELSE IF a.err \/ h.err THEN [n |-> 1, err |-> TRUE, minute |-> m.val, hour |-> 0]
        ELSE LET r == scanStrings(s, h.pos, 3, 2)
             IN  [n |-> r.n, err |-> r.err, minute |-> m.val, hour |-> h.val]

(***************************************************************************)
(* ParseCron: the result is the hour, the minute and whether it failed.    *)
(***************************************************************************)
MaxHour == 23
MaxMinute == 59

\* ParseCron with the upper limit of the hour off by one (hour > 24)
ParseCronHour24(cronExpr) ==
    LET r == Sscanf(cronExpr)
    IN  IF r.err \/ r.n < 2 THEN [hour |-> 0, minute |-> 0, err |-> TRUE]
        ELSE IF r.hour < 0 \/ r.hour > MaxHour + 1 THEN [hour |-> 0, minute |-> 0, err |-> TRUE]
        ELSE IF r.minute < 0 \/ r.minute > MaxMinute THEN [hour |-> 0, minute |-> 0, err |-> TRUE]
        ELSE [hour |-> r.hour, minute |-> r.minute, err |-> FALSE]

ParseCron(cronExpr) ==
    LET r == Sscanf(cronExpr)
    IN  IF r.err \/ r.n < 2 THEN [hour |-> 0, minute |-> 0, err |-> TRUE]
        ELSE IF r.hour < 0 \/ r.hour > MaxHour THEN [hour |-> 0, minute |-> 0, err |-> TRUE]
        ELSE IF r.minute < 0 \/ r.minute > MaxMinute THEN [hour |-> 0, minute |-> 0, err |-> TRUE]
        ELSE [hour |-> r.hour, minute |-> r.minute, err |-> FALSE]


(***************************************************************************)
(* Local time.  A location has one offset from UTC before the instant      *)
(* trans and another from it on (time.Location with a single transition),  *)
(* which is what the deployed TZ, America/New_York, has on either of its   *)
(* two transition days; UTC has no transition.                             *)
(***************************************************************************)
Minute == 60
Hour == 3600
Day == 86400
\* bounds of the zone periods that have no start or no end
alpha == 0 - 1000000000
omega == 1000000000

UTC == [before |-> 0, after |-> 0, trans |-> 0]
\* EST -> EDT at 02:00 EST of local day 1, as on the second Sunday of March
NewYorkSpring == [before |-> 0 - 5 * Hour, after |-> 0 - 4 * Hour, trans |-> Day + 7 * Hour]
\* EDT -> EST at 02:00 EDT of local day 1, as on the first Sunday of November
NewYorkFall == [before |-> 0 - 4 * Hour, after |-> 0 - 5 * Hour, trans |-> Day + 6 * Hour]
Locations == {UTC, NewYorkSpring, NewYorkFall}

\* Location.lookup: the offset in use at the instant, and the period it is in use
lookup(l, unix) ==
    IF l.before = l.after THEN [offset |-> l.before, start |-> alpha, end |-> omega]
    ELSE IF unix < l.trans THEN [offset |-> l.before, start |-> alpha, end |-> l.trans]
    ELSE [offset |-> l.after, start |-> l.trans, end |-> omega]

\* the wall clock reading of an instant: seconds since 00:00 of local day 0
abs(t, l) == t + lookup(l, t).offset
\* Time.Day (as a day number), Time.Hour, Time.Minute, Time.Second
DayOf(t, l) == abs(t, l) \div Day
HourOf(t, l) == (abs(t, l) % Day) \div Hour
MinuteOf(t, l) == (abs(t, l) % Hour) \div Minute
SecondOf(t, l) == abs(t, l) % Minute

\* time.Date(year, month, day, hour, min, 0, 0, loc): the wall clock reading
\* is looked up as if it were UTC, and looked up again when the offset found
\* is not in use at the instant it gives
Date(day, hour, min, l) ==
    LET unix == day * Day + hour * Hour + min * Minute
        z    == lookup(l, unix)
        utc  == unix - z.offset
    IN  IF z.offset = 0 THEN unix
        ELSE IF utc < z.start \/ utc >= z.end THEN unix - lookup(l, utc).offset
        ELSE utc

\* DailyInterval
DailyInterval == 24 * Hour

(***************************************************************************)
(* NextRunTime at the instant now of the clock, in the location l.         *)
(***************************************************************************)
\* the occurrence today when it is not yet past, the one 24 hours later otherwise
NextAfter(now_, next) ==
    IF now_ > next THEN [time |-> next + 24 * Hour, err |-> FALSE]
    ELSE [time |-> next, err |-> FALSE]

\* NextRunTime once ParseCron has returned p
NextRunTimeOf(p, now_, l) ==
    IF p.err THEN [time |-> 0, err |-> TRUE]
    ELSE NextAfter(now_, Date(DayOf(now_, l), p.hour, p.minute, l))

NextRunTime(cronExpr, now_, l) == NextRunTimeOf(ParseCron(cronExpr), now_, l)

(***************************************************************************)
(* The schedule strings of the model: a minute field, a separator, an hour *)
(* field and the rest of the expression.                                   *)
(***************************************************************************)
MinuteFields == {<<"0">>, <<"3", "0">>, <<"5", "9">>, <<"6", "0">>, <<"-", "1">>,
                 <<"+", "5">>, <<"x">>, <<>>}
HourFields == {<<"0">>, <<"9">>, <<"2", "3">>, <<"2", "4">>, <<"-", "1">>, <<"*">>, <<>>}
Separators == {<<" ">>, <<" ", "\t">>, <<"\n">>, <<>>}
Rests == {<<>>, <<" ", "*">>, <<" ", "*", " ", "*">>, <<" ", "*", " ", "*", " ", "*">>,
          <<" ", "1", " ", "j", " ", "m">>, <<" ", "*", " ", "*", " ", "*", " ", "x">>,
          <<" ", "*", "\n", "*", " ", "*">>}
CronExprs == {m \o s \o h \o r : m \in MinuteFields, s \in Separators, h \in HourFields, r \in Rests}

\* "0 9 * * *" (the default), "30 8 * * *", "59 23 * * *", "0 0 * * *", "0 2 * * *", "invalid"
Schedules == {<<"0", " ", "9", " ", "*", " ", "*", " ", "*">>,
              <<"3", "0", " ", "8", " ", "*", " ", "*", " ", "*">>,
              <<"5", "9", " ", "2", "3", " ", "*", " ", "*", " ", "*">>,
              <<"0", " ", "0", " ", "*", " ", "*", " ", "*">>,
              <<"3", "0", " ", "2", " ", "*", " ", "*", " ", "*">>,
              <<"i", "n", "v", "a", "l", "i", "d">>}

\* the instants at which the model reads the clock in NextRunTime
Nows == {d * Day + h * Hour + m * Minute + s :
            d \in 0..1, h \in 0..23, m \in {0, 30, 59}, s \in {0, 1}}

(***************************************************************************)
(* State.                                                                  *)
(***************************************************************************)
VARIABLES
    cronExpr,      \* cfg.ScheduleCron
    now,           \* the clock (time.Now)
    loc,           \* time.Local
    parsed,        \* what ParseCron returned, None before the call
    nextRun,       \* what NextRunTime returned, None before the call
    runOnce,       \* cfg.RunOnce, Scheduler.runOnce
    mainPC,        \* where main is: "start", "select", "stopping", "exited"
    exitCode,      \* the exit status of the process, NoCode while it runs
    sigChan,       \* a SIGINT or SIGTERM is queued in sigChan
    errChan,       \* errChan: <<>> or the one error sent to it
    ctxDone,       \* ctx has been cancelled
    schedPC,       \* where the scheduler goroutine is
    firstRun,      \* the firstRun argument of StartAt
    startAtCalled, \* the instant at which StartAt read the clock
    timer,         \* the instant at which StartAt's timer fires
    tickerNext,    \* the instant of the next tick of Start's ticker
    tickerC,       \* a tick is buffered in ticker.C
    runs,          \* the job runs so far, the last one possibly in flight
    startRet,      \* what Start or StartAt returned, None before it returns
    feedResults,   \* what FetchAndParse returns for each of the urls, in order
    fetched,       \* what FetchMultipleFeeds returned, None before the call
    postArgs,      \* the arguments of PostEventsWithHolidays and what its calls yield
    requests,      \* the bodies of the HTTP requests sent to the webhook, in order
    postRet,       \* what PostEventsWithHolidays returned, None before the call
    response,      \* the text of the LLM's answer
    extracted,     \* what extractJSON returned, None before the call
    selection,     \* what parseSelection returned, None before the call
    selectArgs,    \* the arguments of SelectEvents and what the API answers
    answer,        \* what callClaudeAPI returned, None before the call
    selectRet,     \* what SelectEvents returned, None before the call
    html,          \* the argument of cleanHTML
    cleaned,       \* what cleanHTML returned, None before the call
    item,          \* the argument of parseItem, <<>> when there is none
    event,         \* what parseItem returned, None before the call
    jobArgs,       \* the configuration of the job and what its calls yield
    calls,         \* the HTTP requests the job made, in order
    jobRet         \* what the job returned, None before it returns

cronVars == <<parsed, nextRun>>
feedVars == <<feedResults, fetched>>
\* the state of the functions that are called on their own
postVars == <<postArgs, requests, postRet>>
llmVars == <<response, extracted, selection, selectArgs, answer, selectRet>>
rssVars == <<html, cleaned, item, event>>
jobVars == <<jobArgs, calls, jobRet>>
libVars == <<cronVars, feedVars, postVars, llmVars, rssVars, jobVars>>
mainVars == <<mainPC, exitCode, sigChan>>
schedVars == <<runOnce, errChan, ctxDone, schedPC, firstRun, startAtCalled, timer,
               tickerNext, tickerC, runs, startRet>>
vars == <<cronExpr, now, loc, libVars, mainVars, schedVars>>

\* a call's result is <<>> before the call and <<r>> once it returned r
None == <<>>
\* no instant: a timer or a ticker that was not created, a run still in flight
NoTime == 0 - 1
\* no exit status: the process is running
NoCode == 0 - 1

\* the state of the parts of the program that a specification leaves out
CronAtRest == parsed = None /\ nextRun = None
FeedsAtRest == feedResults = <<>> /\ fetched = None
PostAtRest == postArgs = None /\ requests = <<>> /\ postRet = None
LLMAtRest ==
    /\ response = <<>> /\ extracted = None /\ selection = None
    /\ selectArgs = None /\ answer = None /\ selectRet = None
RSSAtRest == html = <<>> /\ cleaned = None /\ item = <<>> /\ event = None
JobAtRest == jobArgs = None /\ calls = <<>> /\ jobRet = None
LibAtRest ==
    CronAtRest /\ FeedsAtRest /\ PostAtRest /\ LLMAtRest /\ RSSAtRest /\ JobAtRest
MainAtRest == mainPC = "select" /\ exitCode = NoCode /\ sigChan = FALSE
SchedulerAtRest ==
    /\ runOnce = FALSE /\ errChan = <<>> /\ ctxDone = FALSE /\ schedPC = "none"
    /\ firstRun = NoTime /\ startAtCalled = NoTime /\ timer = NoTime
    /\ tickerNext = NoTime /\ tickerC = FALSE /\ runs = <<>> /\ startRet = None

(***************************************************************************)
(* The schedule calculator called on its own: ParseCron on every schedule  *)
(* string, NextRunTime on every schedule, instant and location.            *)
(***************************************************************************)
InitParse ==
    /\ cronExpr \in CronExprs \cup Schedules
    /\ now = 0
    /\ loc = UTC
    /\ LibAtRest /\ MainAtRest /\ SchedulerAtRest

CallParseCron ==
    /\ parsed = None
    /\ parsed' = <<ParseCron(cronExpr)>>
    /\ UNCHANGED <<cronExpr, now, loc, nextRun, feedVars, postVars, llmVars, rssVars, jobVars, mainVars,
                   schedVars>>

NextParse == CallParseCron

SpecParse == InitParse /\ [][NextParse]_vars

InitNextRun ==
    /\ cronExpr \in Schedules
    /\ now \in Nows
    /\ loc \in Locations
    /\ LibAtRest /\ MainAtRest /\ SchedulerAtRest

CallNextRunTime ==
    /\ nextRun = None
    /\ nextRun' = <<NextRunTime(cronExpr, now, loc)>>
    /\ parsed' = <<ParseCron(cronExpr)>>
    /\ UNCHANGED <<cronExpr, now, loc, feedVars, postVars, llmVars, rssVars, jobVars, mainVars,
                   schedVars>>

NextNextRun == CallNextRunTime

SpecNextRun == InitNextRun /\ [][NextNextRun]_vars

(***************************************************************************)
(* The scheduler.  The goroutine that main starts runs Start (run-once     *)
(* mode) or NextRunTime and StartAt (scheduled mode).  Its positions:      *)
(*   "none"       not started                                              *)
(*   "spawned"    started, nothing executed yet                            *)
(*   "wait_first" blocked in the select of StartAt                         *)
(*   "job"        inside s.job                                             *)
(*   "wait_tick"  blocked in the select of Start's loop                    *)
(*   "returned"   Start or StartAt has returned                            *)
(*   "killed"     the process exited under it                              *)
(* A select proceeds as soon as one of its cases is ready, so the clock    *)
(* does not advance past an instant at which the goroutine can move.       *)
(***************************************************************************)
\* the HTTP client timeouts of the feed, LLM and webhook calls
FeedTimeout == 30
LLMTimeout == 60
PostTimeout == 30
\* the longest run of the job: one feed, the LLM, the holiday feed, the post
JobTimeout == FeedTimeout + LLMTimeout + FeedTimeout + PostTimeout
\* how far the clock advances in one step while a job runs, resp. while idle
JobStep == 60
IdleStep == 43200
\* the time that may pass between NextRunTime and StartAt's reading of the clock
Latencies == {0, 1}

\* the schedules and starting instants of the process
ProcessSchedules == {<<"0", " ", "9", " ", "*", " ", "*", " ", "*">>,
                     <<"0", " ", "0", " ", "*", " ", "*", " ", "*">>,
                     <<"i", "n", "v", "a", "l", "i", "d">>}
ProcessStarts == {9 * Hour - 1, 9 * Hour, 14 * Hour, Day + 3 * Hour + 30 * Minute,
                  2 * Day + 4 * Hour + 30 * Minute}

Min(a, b) == IF a < b THEN a ELSE b

\* StartAt's delay without the adjustment of a delay that is negative
StartAtDelayUnadjusted(firstRun_, t) == firstRun_ - t

\* StartAt: the delay until the first run, read off the clock at t
StartAtDelay(firstRun_, t) ==
    LET delay == firstRun_ - t
    IN  IF delay < 0 THEN delay + 24 * Hour ELSE delay

\* Start in run-once mode returning nil whatever the job returned
RunOnceReturnNil(err) == "nil"

\* Start in run-once mode: what it returns after the job returned err
RunOnceReturn(err) == IF err THEN "job failed" ELSE "nil"

\* Start's loop leaving with the job's error when a run fails
AfterJobReturning(err) == IF err THEN "returned" ELSE "wait_tick"

\* Start in scheduled mode: where it goes after a run returned err
AfterJob(err) == "wait_tick"

\* s.job(ctx) called without the caller waiting for it to return
StartJobKeepWaiting(kind) ==
    /\ Len(runs) < MaxRuns
    /\ runs' = Append(runs, [kind |-> kind, start |-> now, end |-> NoTime, err |-> FALSE])
    /\ schedPC' = schedPC

\* s.job(ctx) is entered
StartJob(kind) ==
    /\ Len(runs) < MaxRuns
    /\ runs' = Append(runs, [kind |-> kind, start |-> now, end |-> NoTime, err |-> FALSE])
    /\ schedPC' = "job"

\* Start or StartAt returns ret, which the goroutine sends to errChan;
\* the deferred Stop calls release the timer and the ticker
Return(ret) ==
    /\ startRet' = <<ret>>
    /\ errChan' = <<ret>>
    /\ schedPC' = "returned"
    /\ timer' = NoTime
    /\ tickerNext' = NoTime
    /\ tickerC' = FALSE

\* the goroutine of main in run-once mode: Start runs the job
GoStart ==
    /\ schedPC = "spawned"
    /\ runOnce
    /\ StartJob("once")
    /\ UNCHANGED <<cronExpr, now, loc, libVars, mainVars, runOnce, errChan, ctxDone,
                   firstRun, startAtCalled, timer, tickerNext, tickerC, startRet>>

\* the goroutine of main in scheduled mode: NextRunTime, then StartAt up
\* to its select
GoStartAt ==
    /\ schedPC = "spawned"
    /\ ~runOnce
    /\ \E lat \in Latencies, r \in {NextRunTime(cronExpr, now, loc)} :
         LET t == now + lat
         IN  /\ t <= MaxTime
             /\ now' = t
             /\ firstRun' = r.time
             /\ startAtCalled' = t
             /\ timer' = t + StartAtDelay(r.time, t)
    /\ schedPC' = "wait_first"
    /\ UNCHANGED <<cronExpr, loc, libVars, mainVars, runOnce, errChan, ctxDone,
                   tickerNext, tickerC, runs, startRet>>

\* StartAt's select, case <-ctx.Done()
StartAtCancelled ==
    /\ schedPC = "wait_first"
    /\ ctxDone
    /\ Return("canceled")
    /\ UNCHANGED <<cronExpr, now, loc, libVars, mainVars, runOnce, ctxDone,
                   firstRun, startAtCalled, runs>>

\* StartAt's select, case <-timer.C: Start runs the initial job
StartAtTimer ==
    /\ schedPC = "wait_first"
    /\ now >= timer
    /\ StartJob("initial")
    /\ timer' = NoTime
    /\ UNCHANGED <<cronExpr, now, loc, libVars, mainVars, runOnce, errChan, ctxDone,
                   firstRun, startAtCalled, tickerNext, tickerC, startRet>>

\* s.job returns err; Start returns (run-once), creates the ticker (after
\* the initial job) or goes back to its select (after a scheduled job)
JobEnd ==
    /\ schedPC = "job"
    /\ \E err \in BOOLEAN :
         LET k   == Len(runs)
             run == runs[k]
         IN  /\ runs' = [runs EXCEPT ![k] = [run EXCEPT !.end = now, !.err = err]]
             /\ IF run.kind = "once"
                THEN /\ Return(RunOnceReturn(err))
                ELSE /\ schedPC' = AfterJob(err)
                     /\ tickerNext' = IF run.kind = "initial" THEN now + DailyInterval
                                      ELSE tickerNext
                     /\ UNCHANGED <<timer, tickerC, errChan, startRet>>
    /\ UNCHANGED <<cronExpr, now, loc, libVars, mainVars, runOnce, ctxDone,
                   firstRun, startAtCalled>>

\* Start's select, case <-ctx.Done(), returning nil in place of ctx.Err()
StartCancelledReturnsNil ==
    /\ schedPC = "wait_tick"
    /\ ctxDone
    /\ Return("nil")
    /\ UNCHANGED <<cronExpr, now, loc, libVars, mainVars, runOnce, ctxDone,
                   firstRun, startAtCalled, runs>>

\* Start's select, case <-ctx.Done()
StartCancelled ==
    /\ schedPC = "wait_tick"
    /\ ctxDone
    /\ Return("canceled")
    /\ UNCHANGED <<cronExpr, now, loc, libVars, mainVars, runOnce, ctxDone,
                   firstRun, startAtCalled, runs>>

\* Start's select, case <-ticker.C, with the tick left in the channel
StartTickKeepingTick ==
    /\ schedPC = "wait_tick"
    /\ tickerC
    /\ tickerC' = tickerC
    /\ StartJob("scheduled")
    /\ UNCHANGED <<cronExpr, now, loc, libVars, mainVars, runOnce, errChan, ctxDone,
                   firstRun, startAtCalled, timer, tickerNext, startRet>>

\* Start's select, case <-ticker.C: the scheduled job runs
StartTick ==
    /\ schedPC = "wait_tick"
    /\ tickerC
    /\ tickerC' = FALSE
    /\ StartJob("scheduled")
    /\ UNCHANGED <<cronExpr, now, loc, libVars, mainVars, runOnce, errChan, ctxDone,
                   firstRun, startAtCalled, timer, tickerNext, startRet>>

\* time passes while the job runs or the goroutine is blocked in a select
\* none of whose cases is ready; the ticker sends its tick when its instant
\* is reached
Tick ==
    /\ mainPC = "select"
    /\ \/ schedPC = "job" /\ now + JobStep - runs[Len(runs)].start <= JobTimeout
       \/ schedPC = "wait_first" /\ ~ctxDone /\ now < timer
       \/ schedPC = "wait_tick" /\ ~ctxDone /\ ~tickerC
    /\ LET d  == IF schedPC = "job" THEN JobStep ELSE IdleStep
           t1 == IF schedPC = "wait_first" THEN Min(now + d, timer) ELSE now + d
           t  == IF tickerNext # NoTime THEN Min(t1, tickerNext) ELSE t1
       IN  /\ t <= MaxTime
           /\ now' = t
           /\ IF tickerNext # NoTime /\ t = tickerNext
              THEN tickerC' = TRUE /\ tickerNext' = tickerNext + DailyInterval
              ELSE UNCHANGED <<tickerC, tickerNext>>
    /\ UNCHANGED <<cronExpr, loc, libVars, mainVars, runOnce, errChan, ctxDone, schedPC,
                   firstRun, startAtCalled, timer, runs, startRet>>

\* the caller cancels ctx
Cancel ==
    /\ ~ctxDone
    /\ schedPC # "returned"
    /\ ctxDone' = TRUE
    /\ UNCHANGED <<cronExpr, now, loc, libVars, mainVars, runOnce, errChan, schedPC,
                   firstRun, startAtCalled, timer, tickerNext, tickerC, runs, startRet>>

SchedulerStep ==
    \/ GoStart
    \/ GoStartAt
    \/ StartAtCancelled
    \/ StartAtTimer
    \/ JobEnd
    \/ StartCancelled
    \/ StartTick

(***************************************************************************)
(* The scheduler under a caller that starts the goroutine, may cancel ctx  *)
(* at any moment and waits for the result.                                 *)
(***************************************************************************)
InitScheduler ==
    /\ cronExpr \in {c \in ProcessSchedules : ~ParseCron(c).err}
    /\ now \in ProcessStarts
    /\ loc \in Locations
    /\ LibAtRest /\ MainAtRest
    /\ runOnce \in BOOLEAN
    /\ errChan = <<>> /\ ctxDone = FALSE /\ schedPC = "spawned"
    /\ firstRun = NoTime /\ startAtCalled = NoTime /\ timer = NoTime
    /\ tickerNext = NoTime /\ tickerC = FALSE /\ runs = <<>> /\ startRet = None

NextScheduler == SchedulerStep \/ Tick \/ Cancel

SpecScheduler == InitScheduler /\ [][NextScheduler]_vars

\* a job run in flight terminates, and a select whose ctx.Done() case stays
\* ready eventually takes it
FairScheduler ==
    /\ SpecScheduler
    /\ WF_vars(JobEnd)
    /\ WF_vars(StartAtCancelled)
    /\ WF_vars(StartCancelled)

(***************************************************************************)
(* The process: main creates the scheduler, starts its goroutine and waits *)
(* for a signal or for the goroutine's result.                             *)
(***************************************************************************)
\* main up to its select, with the schedule parsed in run-once mode too
MainSetupAlwaysParsing ==
    /\ mainPC = "start"
    /\ IF NextRunTime(cronExpr, now, loc).err
       THEN /\ mainPC' = "exited"
            /\ exitCode' = 1
            /\ UNCHANGED schedPC
       ELSE /\ mainPC' = "select"
            /\ schedPC' = "spawned"
            /\ UNCHANGED exitCode
    /\ UNCHANGED <<cronExpr, now, loc, libVars, sigChan, runOnce, errChan, ctxDone,
                   firstRun, startAtCalled, timer, tickerNext, tickerC, runs, startRet>>

\* main up to its select: in scheduled mode an unparsable schedule is fatal
MainSetup ==
    /\ mainPC = "start"
    /\ IF ~runOnce /\ NextRunTime(cronExpr, now, loc).err
       THEN /\ mainPC' = "exited"
            /\ exitCode' = 1
            /\ UNCHANGED schedPC
       ELSE /\ mainPC' = "select"
            /\ schedPC' = "spawned"
            /\ UNCHANGED exitCode
    /\ UNCHANGED <<cronExpr, now, loc, libVars, sigChan, runOnce, errChan, ctxDone,
                   firstRun, startAtCalled, timer, tickerNext, tickerC, runs, startRet>>

\* a SIGINT or SIGTERM is delivered to the process
Signal ==
    /\ mainPC \in {"select", "stopping"}
    /\ ~sigChan
    /\ sigChan' = TRUE
    /\ UNCHANGED <<cronExpr, now, loc, libVars, mainPC, exitCode, schedVars>>

\* main's select, case sig := <-sigChan: cancel()
MainSignal ==
    /\ mainPC = "select"
    /\ sigChan
    /\ sigChan' = FALSE
    /\ ctxDone' = TRUE
    /\ mainPC' = "stopping"
    /\ UNCHANGED <<cronExpr, now, loc, libVars, exitCode, runOnce, errChan, schedPC,
                   firstRun, startAtCalled, timer, tickerNext, tickerC, runs, startRet>>

\* main's select, case err := <-errChan: the error is logged
MainErr ==
    /\ mainPC = "select"
    /\ errChan # <<>>
    /\ errChan' = <<>>
    /\ mainPC' = "stopping"
    /\ UNCHANGED <<cronExpr, now, loc, libVars, exitCode, sigChan, runOnce, ctxDone,
                   schedPC, firstRun, startAtCalled, timer, tickerNext, tickerC, runs,
                   startRet>>

\* main logs "stopped" and returns: the deferred cancel runs and the process
\* exits with status 0, which ends the goroutine wherever it is
MainReturn ==
    /\ mainPC = "stopping"
    /\ mainPC' = "exited"
    /\ exitCode' = 0
    /\ ctxDone' = TRUE
    /\ schedPC' = IF schedPC = "returned" THEN "returned" ELSE "killed"
    /\ UNCHANGED <<cronExpr, now, loc, libVars, sigChan, runOnce, errChan,
                   firstRun, startAtCalled, timer, tickerNext, tickerC, runs, startRet>>

InitMain ==
    /\ cronExpr \in ProcessSchedules
    /\ now \in ProcessStarts
    /\ loc \in Locations
    /\ LibAtRest
    /\ mainPC = "start" /\ exitCode = NoCode /\ sigChan = FALSE
    /\ runOnce \in BOOLEAN
    /\ errChan = <<>> /\ ctxDone = FALSE /\ schedPC = "none"
    /\ firstRun = NoTime /\ startAtCalled = NoTime /\ timer = NoTime
    /\ tickerNext = NoTime /\ tickerC = FALSE /\ runs = <<>> /\ startRet = None

NextMain ==
    \/ MainSetup
    \/ Signal
    \/ MainSignal
    \/ MainErr
    \/ MainReturn
    \/ SchedulerStep
    \/ Tick

SpecMain == InitMain /\ [][NextMain]_vars

(***************************************************************************)
(* FetchMultipleFeeds.  What the GET and the parse of each url yield is    *)
(* given: an error (and no events) or the events of the feed's items.      *)
(***************************************************************************)
\* what FetchAndParse returns for the i-th url: nil and an error, or the
\* events of its n items (an event is named by its url and its item)
FetchAndParse(i, err, n) ==
    [err |-> err, events |-> IF err THEN <<>> ELSE [k \in 1..n |-> <<i, k>>]]

FeedResults ==
    UNION {{[i \in 1..n |-> FetchAndParse(i, f[i].err, f[i].n)] :
                f \in [1..n -> [err : BOOLEAN, n : 0..MaxItems]]} : n \in 0..MaxFeeds}

\* the loop over the urls giving up at the first feed that fails
RECURSIVE FetchLoopUntilError(_, _, _)
FetchLoopUntilError(results, i, allEvents) ==
    IF i > Len(results) THEN allEvents
    ELSE IF results[i].err THEN allEvents
    ELSE FetchLoopUntilError(results, i + 1, allEvents \o results[i].events)

\* the loop over the urls from the i-th on: a feed that fails is skipped
RECURSIVE FetchLoop(_, _, _)
FetchLoop(results, i, allEvents) ==
    IF i > Len(results) THEN allEvents
    ELSE IF results[i].err THEN FetchLoop(results, i + 1, allEvents)
    ELSE FetchLoop(results, i + 1, allEvents \o results[i].events)

FetchMultipleFeeds(results) ==
    LET allEvents == FetchLoop(results, 1, <<>>)
    IN  IF Len(allEvents) = 0 THEN [events |-> <<>>, err |-> TRUE]
        ELSE [events |-> allEvents, err |-> FALSE]

InitFeeds ==
    /\ cronExpr = <<>>
    /\ now = 0
    /\ loc = UTC
    /\ CronAtRest /\ PostAtRest /\ LLMAtRest /\ RSSAtRest /\ JobAtRest /\ MainAtRest /\ SchedulerAtRest
    /\ feedResults \in FeedResults
    /\ fetched = None

CallFetchMultipleFeeds ==
    /\ fetched = None
    /\ fetched' = <<FetchMultipleFeeds(feedResults)>>
    /\ UNCHANGED <<cronExpr, now, loc, cronVars, feedResults, postVars, llmVars, rssVars,
                   jobVars, mainVars, schedVars>>

NextFeeds == CallFetchMultipleFeeds

SpecFeeds == InitFeeds /\ [][NextFeeds]_vars

(***************************************************************************)
(* The Slack poster.  A selected event and a holiday are given by a number; *)
(* the text of a block is what it is made of.                              *)
(***************************************************************************)
\* the largest number of events and of holidays in one call of the poster
MaxSelected == 2
MaxHolidays == 2

RECURSIVE SeqsUpTo(_, _)
\* the sequences over S of length at most n
SeqsUpTo(S, n) ==
    IF n = 0 THEN {<<>>}
    ELSE LET shorter == SeqsUpTo(S, n - 1)
         IN  shorter \cup {Append(q, x) : q \in shorter, x \in S}

Block(type, text) == [type |-> type, text |-> text]

\* the loop over the events with a divider after every event
RECURSIVE EventBlocksDividerAfterEach(_, _)
EventBlocksDividerAfterEach(events, i) ==
    IF i > Len(events) THEN <<>>
    ELSE <<Block("section", <<"event", events[i]>>), Block("divider", <<>>)>>
         \o EventBlocksDividerAfterEach(events, i + 1)

\* the loop over the events: a section for each, a divider between two
RECURSIVE EventBlocks(_, _)
EventBlocks(events, i) ==
    IF i > Len(events) THEN <<>>
    ELSE <<Block("section", <<"event", events[i]>>)>>
         \o (IF i < Len(events) THEN <<Block("divider", <<>>)>> ELSE <<>>)
         \o EventBlocks(events, i + 1)

\* the text of the holiday section: a bullet and the holiday on each line,
\* a newline before every line but the first
RECURSIVE HolidayText(_, _)
HolidayText(holidays, i) ==
    IF i > Len(holidays) THEN <<>>
    ELSE (IF i > 1 THEN <<"\n">> ELSE <<>>) \o <<"bullet", holidays[i]>>
         \o HolidayText(holidays, i + 1)

formatMessageWithHolidays(events, holidays) ==
    <<Block("header", <<"On This Day in History">>), Block("divider", <<>>)>>
    \o (IF Len(holidays) > 0
        THEN <<Block("section", <<"Today's Fun Holidays">>),
               Block("section", HolidayText(holidays, 1)),
               Block("divider", <<>>)>>
        ELSE <<>>)
    \o EventBlocks(events, 1)
    \o <<Block("context", <<"Curated by AI">>)>>

\* the guard of PostEventsWithHolidays rejecting a call that lacks either
NothingToPostEither(events, holidays) == Len(events) = 0 \/ Len(holidays) = 0

\* the guard of PostEventsWithHolidays
NothingToPost(events, holidays) == Len(events) = 0 /\ Len(holidays) = 0

\* what client.Do and the read of the body yield: an error of client.Do, or
\* a status and whether io.ReadAll read the body
SlackReplies ==
    {[err |-> TRUE, status |-> 0, read |-> FALSE],
     [err |-> FALSE, status |-> 200, read |-> TRUE],
     [err |-> FALSE, status |-> 500, read |-> TRUE],
     [err |-> FALSE, status |-> 200, read |-> FALSE]}

\* PostEventsWithHolidays without the check of the status
PostEventsWithHolidaysAnyStatus(events, holidays, urlValid, reply) ==
    IF NothingToPost(events, holidays)
    THEN [err |-> "no events or holidays to post", sent |-> <<>>]
    ELSE IF ~urlValid
    THEN [err |-> "failed to create request", sent |-> <<>>]
    ELSE IF reply.err
    THEN [err |-> "failed to make request",
          sent |-> <<formatMessageWithHolidays(events, holidays)>>]
    ELSE IF ~reply.read
    THEN [err |-> "failed to read response",
          sent |-> <<formatMessageWithHolidays(events, holidays)>>]
    ELSE [err |-> "nil", sent |-> <<formatMessageWithHolidays(events, holidays)>>]

\* PostEventsWithHolidays: the error it returns ("nil" for none) and the
\* requests it sent; urlValid is whether http.NewRequest accepts the
\* webhook URL, reply is what the webhook answers
PostEventsWithHolidays(events, holidays, urlValid, reply) ==
    IF NothingToPost(events, holidays)
    THEN [err |-> "no events or holidays to post", sent |-> <<>>]
    ELSE IF ~urlValid
    THEN [err |-> "failed to create request", sent |-> <<>>]
    ELSE IF reply.err
    THEN [err |-> "failed to make request",
          sent |-> <<formatMessageWithHolidays(events, holidays)>>]
    ELSE IF ~reply.read
    THEN [err |-> "failed to read response",
          sent |-> <<formatMessageWithHolidays(events, holidays)>>]
    ELSE IF reply.status # 200
    THEN [err |-> "Slack API request failed",
          sent |-> <<formatMessageWithHolidays(events, holidays)>>]
    ELSE [err |-> "nil", sent |-> <<formatMessageWithHolidays(events, holidays)>>]

InitPost ==
    /\ cronExpr = <<>>
    /\ now = 0
    /\ loc = UTC
    /\ CronAtRest /\ FeedsAtRest /\ LLMAtRest /\ RSSAtRest /\ JobAtRest /\ MainAtRest /\ SchedulerAtRest
    /\ \E events \in SeqsUpTo(1..MaxSelected, MaxSelected),
          holidays \in SeqsUpTo(1..MaxHolidays, MaxHolidays),
          urlValid \in BOOLEAN, reply \in SlackReplies :
         postArgs = <<[events |-> events, holidays |-> holidays,
                       urlValid |-> urlValid, reply |-> reply]>>
    /\ requests = <<>>
    /\ postRet = None

CallPostEventsWithHolidays ==
    /\ postRet = None
    /\ \E r \in {PostEventsWithHolidays(postArgs[1].events, postArgs[1].holidays,
                                        postArgs[1].urlValid, postArgs[1].reply)} :
         /\ requests' = requests \o r.sent
         /\ postRet' = <<r.err>>
    /\ UNCHANGED <<cronExpr, now, loc, cronVars, feedVars, postArgs, llmVars, rssVars,
                   jobVars, mainVars, schedVars>>

NextPost == CallPostEventsWithHolidays

SpecPost == InitPost /\ [][NextPost]_vars

(***************************************************************************)
(* The LLM's answer.  A text is a sequence of characters; a JSON document  *)
(* in it is a single element, a chunk of characters none of which is a     *)
(* backquote.                                                              *)
(***************************************************************************)
\* the longest text without a fence that is tried
MaxText == 4

\* bytes.Index from the position from (0-based) on: the index of the first
\* instance of sep, -1 if there is none
RECURSIVE IndexFrom(_, _, _)
IndexFrom(s, sep, from) ==
    IF from + Len(sep) > Len(s) THEN 0 - 1
    ELSE IF SubSeq(s, from + 1, from + Len(sep)) = sep THEN from
    ELSE IndexFrom(s, sep, from + 1)

Index(s, sep) == IndexFrom(s, sep, 0)
Contains(s, sep) == Index(s, sep) # 0 - 1
\* s[a:b] and s[a:]
Slice(s, a, b) == SubSeq(s, a + 1, b)
SliceFrom(s, a) == SubSeq(s, a + 1, Len(s))

\* the backquote, U+0060, which is written by its name
Backquote == "U+0060"

Fence == <<Backquote, Backquote, Backquote>>
FenceJSON == Fence \o <<"j", "s", "o", "n">>

\* one of the two blocks of extractJSON, for the opening fence open: the
\* text between it and the next fence, None when the block returns nothing
Between(s, open, start) ==
    IF start = 0 - 1 THEN None
    ELSE IF Index(SliceFrom(s, start + Len(open)), Fence) = 0 - 1 THEN None
    ELSE <<Slice(s, start + Len(open),
                 start + Len(open) + Index(SliceFrom(s, start + Len(open)), Fence))>>

FencedBlock(s, open) ==
    IF Contains(s, open) THEN Between(s, open, Index(s, open)) ELSE None

extractJSON(s) ==
    IF FencedBlock(s, FenceJSON) # None THEN FencedBlock(s, FenceJSON)[1]
    ELSE IF FencedBlock(s, Fence) # None THEN FencedBlock(s, Fence)[1]
    ELSE s

\* the JSON documents of the model, with what json.Unmarshal into a
\* SelectionResponse makes of each: an error, or the Events it stores
\* (selected events are given by a number)
Documents ==
    {[text |-> "{\"events\": [{\"year\": \"1969\", ...}]}", err |-> FALSE, events |-> <<1>>],
     [text |-> "{\"events\": [{\"year\": \"1969\", ...}, {\"year\": \"1776\", ...}]}",
      err |-> FALSE, events |-> <<1, 2>>],
     [text |-> "{\"events\": [{\"year\": \"1776\", ...}, {\"year\": \"1969\", ...}]}",
      err |-> FALSE, events |-> <<2, 1>>],
     [text |-> "{\"events\": [{...}, {...}, {...}]}", err |-> FALSE, events |-> <<3, 1, 2>>],
     [text |-> "{\"events\": []}", err |-> FALSE, events |-> <<>>],
     [text |-> "{\"events\": null}", err |-> FALSE, events |-> <<>>],
     [text |-> "{}", err |-> FALSE, events |-> <<>>],
     [text |-> "null", err |-> FALSE, events |-> <<>>],
     [text |-> "{\"events\": \"none\"}", err |-> TRUE, events |-> <<>>],
     [text |-> "{\"events\": [{\"year\": ", err |-> TRUE, events |-> <<>>],
     [text |-> "not json", err |-> TRUE, events |-> <<>>]}

\* the white space that encoding/json skips around a value
JSONSpace == {" ", "\t", "\r", "\n"}

RECURSIVE TrimLeft(_, _)
TrimLeft(s, cutset) ==
    IF s # <<>> /\ Head(s) \in cutset THEN TrimLeft(Tail(s), cutset) ELSE s

RECURSIVE TrimRight(_, _)
TrimRight(s, cutset) ==
    IF s # <<>> /\ s[Len(s)] \in cutset THEN TrimRight(SubSeq(s, 1, Len(s) - 1), cutset)
    ELSE s

\* json.Unmarshal([]byte(text), &selection) once the white space around the
\* value is skipped: rest is a document, or it is not valid JSON
UnmarshalValue(rest) ==
    IF Len(rest) = 1 /\ \E doc \in Documents : doc.text = rest[1]
    THEN LET doc == CHOOSE doc \in Documents : doc.text = rest[1]
         IN  [err |-> doc.err, events |-> doc.events]
    ELSE [err |-> TRUE, events |-> <<>>]

Unmarshal(text) == UnmarshalValue(TrimRight(TrimLeft(text, JSONSpace), JSONSpace))

\* parseSelection without its test of the length of selection.Events
SelectionOfAny(u) ==
    IF u.err THEN [events |-> <<>>, err |-> "failed to unmarshal selection"]
    ELSE [events |-> u.events, err |-> "nil"]

\* parseSelection once json.Unmarshal has returned u
SelectionOf(u) ==
    IF u.err THEN [events |-> <<>>, err |-> "failed to unmarshal selection"]
    ELSE IF Len(u.events) = 0 THEN [events |-> <<>>, err |-> "no events in selection"]
    ELSE [events |-> u.events, err |-> "nil"]

parseSelection(text) == SelectionOf(Unmarshal(extractJSON(text)))

\* the language tags of an opening fence: none, json, js
Tags == {<<>>, <<"j", "s", "o", "n">>, <<"j", "s">>}
\* what a fence encloses: a document, on its own line or not
Interiors ==
    {pre \o <<doc.text>> \o post :
        pre \in {<<>>, <<"\n">>}, doc \in Documents, post \in {<<>>, <<"\n">>}}
Prefixes == {<<>>, <<"x", " ">>}
Suffixes == {<<>>, <<"\n">>}

Fenced(prefix, tag, interior, suffix) ==
    prefix \o Fence \o tag \o interior \o Fence \o suffix

FencedTexts ==
    {Fenced(prefix, tag, interior, suffix) :
        prefix \in Prefixes, tag \in Tags, interior \in Interiors, suffix \in Suffixes}
\* the documents as they are, and the short texts of backquotes and letters
PlainTexts ==
    Interiors \cup {t \in SeqsUpTo({Backquote, "j", "\n"}, MaxText) : ~Contains(t, Fence)}
\* the documents of the texts with two fenced regions
RegionDocuments == {doc \in Documents : doc.events \in {<<1>>, <<2, 1>>}}
\* a text with two fenced regions, each on lines of its own
TwoRegions(tag1, doc1, tag2, doc2) ==
    Fenced(<<>>, tag1, <<"\n", doc1.text, "\n">>, <<"\n">>)
    \o Fenced(<<>>, tag2, <<"\n", doc2.text, "\n">>, <<>>)
TwoRegionTexts ==
    {TwoRegions(tag1, doc1, tag2, doc2) :
        tag1 \in {<<>>, <<"j", "s", "o", "n">>}, doc1 \in RegionDocuments,
        tag2 \in {<<>>, <<"j", "s", "o", "n">>}, doc2 \in RegionDocuments}
Responses == FencedTexts \cup PlainTexts \cup TwoRegionTexts

InitSelector ==
    /\ cronExpr = <<>>
    /\ now = 0
    /\ loc = UTC
    /\ CronAtRest /\ FeedsAtRest /\ PostAtRest /\ RSSAtRest /\ JobAtRest /\ MainAtRest /\ SchedulerAtRest
    /\ response \in Responses
    /\ extracted = None
    /\ selection = None
    /\ selectArgs = None /\ answer = None /\ selectRet = None

CallExtractJSON ==
    /\ extracted = None
    /\ extracted' = <<extractJSON(response)>>
    /\ UNCHANGED <<cronExpr, now, loc, cronVars, feedVars, postVars, response, selection,
                   selectArgs, answer, selectRet, rssVars, jobVars, mainVars, schedVars>>

CallParseSelection ==
    /\ selection = None
    /\ selection' = <<parseSelection(response)>>
    /\ UNCHANGED <<cronExpr, now, loc, cronVars, feedVars, postVars, response, extracted,
                   selectArgs, answer, selectRet, rssVars, jobVars, mainVars, schedVars>>

NextSelector == CallExtractJSON \/ CallParseSelection

SpecSelector == InitSelector /\ [][NextSelector]_vars

(***************************************************************************)
(* The RSS parser: cleanHTML and parseItem.                                *)
(***************************************************************************)
\* the largest number of pieces an HTML text of the model is made of
MaxPieces == 4

\* strings.ReplaceAll: the instances of old, found from left to right
\* without overlap, are replaced by new
RECURSIVE ReplaceAll(_, _, _)
ReplaceAll(s, old, new) ==
    IF Len(s) < Len(old) THEN s
    ELSE IF SubSeq(s, 1, Len(old)) = old
    THEN new \o ReplaceAll(SubSeq(s, Len(old) + 1, Len(s)), old, new)
    ELSE <<Head(s)>> \o ReplaceAll(Tail(s), old, new)

\* the first five statements of cleanHTML
ReplaceBreaks(s) ==
    ReplaceAll(ReplaceAll(ReplaceAll(ReplaceAll(ReplaceAll(s,
        <<"<", "b", "r", ">">>, <<"\n">>),
        <<"<", "b", "r", "/", ">">>, <<"\n">>),
        <<"<", "b", "r", " ", "/", ">">>, <<"\n">>),
        <<"<", "p", ">">>, <<"\n">>),
        <<"<", "/", "p", ">">>, <<"\n">>)

\* s[:start] + s[start+end+1:]
CutTag(s, start, end) == Slice(s, 0, start) \o SliceFrom(s, start + end + 1)

\* the loop of cleanHTML cut down to its first iteration
RemoveFirstTag(s) ==
    IF Index(s, <<"<">>) = 0 - 1 THEN s
    ELSE IF Index(SliceFrom(s, Index(s, <<"<">>)), <<">">>) = 0 - 1 THEN s
    ELSE CutTag(s, Index(s, <<"<">>), Index(SliceFrom(s, Index(s, <<"<">>)), <<">">>))

\* the loop of cleanHTML that removes the remaining tags
RECURSIVE RemoveTags(_)
RemoveTags(s) ==
    IF Index(s, <<"<">>) = 0 - 1 THEN s
    ELSE IF Index(SliceFrom(s, Index(s, <<"<">>)), <<">">>) = 0 - 1 THEN s
    ELSE RemoveTags(CutTag(s, Index(s, <<"<">>),
                           Index(SliceFrom(s, Index(s, <<"<">>)), <<">">>)))

\* the white space of strings.TrimSpace, among the characters of the model
WhiteSpace == {" ", "\t", "\n", "\r"}
TrimSpace(s) == TrimRight(TrimLeft(s, WhiteSpace), WhiteSpace)

\* the loop of cleanHTML that removes the excessive newlines, left after
\* its first iteration
SqueezeNewlinesOnce(s) ==
    IF Contains(s, <<"\n", "\n", "\n">>)
    THEN ReplaceAll(s, <<"\n", "\n", "\n">>, <<"\n", "\n">>)
    ELSE s

\* the loop of cleanHTML that removes the excessive newlines
RECURSIVE SqueezeNewlines(_)
SqueezeNewlines(s) ==
    IF Contains(s, <<"\n", "\n", "\n">>)
    THEN SqueezeNewlines(ReplaceAll(s, <<"\n", "\n", "\n">>, <<"\n", "\n">>))
    ELSE s

cleanHTML(s) == SqueezeNewlines(TrimSpace(RemoveTags(ReplaceBreaks(s))))

\* the pieces of the HTML texts: the tags that cleanHTML replaces, another
\* tag, parts of tags, text and white space
Pieces == {<<"<", "b", "r", ">">>, <<"<", "b", "r", "/", ">">>, <<"<", "b", "r", " ", "/", ">">>,
           <<"<", "p", ">">>, <<"<", "/", "p", ">">>, <<"<", "a", ">">>,
           <<"<">>, <<">">>, <<"a">>, <<" ">>, <<"\n">>, <<"\n", "\n">>}

RECURSIVE Texts(_)
\* the concatenations of at most n pieces
Texts(n) ==
    IF n = 0 THEN {<<>>}
    ELSE LET shorter == Texts(n - 1)
         IN  shorter \cup {t \o piece : t \in shorter, piece \in Pieces}

InitClean ==
    /\ cronExpr = <<>>
    /\ now = 0
    /\ loc = UTC
    /\ CronAtRest /\ FeedsAtRest /\ PostAtRest /\ LLMAtRest /\ JobAtRest /\ MainAtRest /\ SchedulerAtRest
    /\ html \in Texts(MaxPieces)
    /\ cleaned = None
    /\ item = <<>>
    /\ event = None

CallCleanHTML ==
    /\ cleaned = None
    /\ cleaned' = <<cleanHTML(html)>>
    /\ UNCHANGED <<cronExpr, now, loc, cronVars, feedVars, postVars, llmVars, html, item,
                   event, jobVars, mainVars, schedVars>>

NextClean == CallCleanHTML

SpecClean == InitClean /\ [][NextClean]_vars

\* the longest item title that is tried
MaxTitle == 4

\* the index of the last instance of sep in s, -1 if there is none
RECURSIVE LastIndexFrom(_, _, _)
LastIndexFrom(s, sep, from) ==
    IF from < 0 THEN 0 - 1
    ELSE IF SubSeq(s, from + 1, from + Len(sep)) = sep THEN from
    ELSE LastIndexFrom(s, sep, from - 1)

\* the title split in two at its last separator
SplitAtLast(s, sep) ==
    IF LastIndexFrom(s, sep, Len(s) - Len(sep)) = 0 - 1 THEN <<s>>
    ELSE <<Slice(s, 0, LastIndexFrom(s, sep, Len(s) - Len(sep))),
           SliceFrom(s, LastIndexFrom(s, sep, Len(s) - Len(sep)) + Len(sep))>>

\* strings.SplitN(s, sep, 2)
SplitN2(s, sep) ==
    IF Index(s, sep) = 0 - 1 THEN <<s>>
    ELSE <<Slice(s, 0, Index(s, sep)), SliceFrom(s, Index(s, sep) + Len(sep))>>

\* parseItem once the title is split into parts
EventOf(it, parts) ==
    [Year        |-> IF Len(parts) = 2 THEN TrimSpace(parts[1]) ELSE <<>>,
     Title       |-> IF Len(parts) = 2 THEN TrimSpace(parts[2]) ELSE it.Title,
     Description |-> cleanHTML(it.Description),
     Category    |-> IF Len(it.Categories) > 0 THEN it.Categories[1] ELSE "",
     Link        |-> it.Link,
     RawItem     |-> it]

parseItem(it) == EventOf(it, SplitN2(it.Title, <<":">>))

\* the items of the model
Titles == SeqsUpTo({"1", "A", " ", ":"}, MaxTitle)
Items ==
    [Title : Titles,
     Description : {<<>>, <<"<", "p", ">", "a", "<", "/", "p", ">">>},
     Link : {"https://example.com/event/1", ""},
     Categories : SeqsUpTo({"Science", "Space"}, 2)]

InitItem ==
    /\ cronExpr = <<>>
    /\ now = 0
    /\ loc = UTC
    /\ CronAtRest /\ FeedsAtRest /\ PostAtRest /\ LLMAtRest /\ JobAtRest /\ MainAtRest /\ SchedulerAtRest
    /\ html = <<>>
    /\ cleaned = None
    /\ item \in Items
    /\ event = None

CallParseItem ==
    /\ event = None
    /\ event' = <<parseItem(item)>>
    /\ UNCHANGED <<cronExpr, now, loc, cronVars, feedVars, postVars, llmVars, html, cleaned,
                   item, jobVars, mainVars, schedVars>>

NextItem == CallParseItem

SpecItem == InitItem /\ [][NextItem]_vars

(***************************************************************************)
(* The job: fetch the feeds, select with the LLM, fetch and filter the     *)
(* holidays, post.  A request the job makes is recorded by its             *)
(* destination and its content.                                            *)
(***************************************************************************)
Call(to, body) == [to |-> to, body |-> body]

\* the GETs of a loop that tries a url that failed a second time
RECURSIVE FeedCallsRetrying(_)
FeedCallsRetrying(results) ==
    IF results = <<>> THEN <<>>
    ELSE FeedCallsRetrying(SubSeq(results, 1, Len(results) - 1))
         \o (IF results[Len(results)].err
             THEN <<Call("feed", Len(results)), Call("feed", Len(results))>>
             ELSE <<Call("feed", Len(results))>>)

\* the GETs of FetchMultipleFeeds, one for each url
FeedCalls(results) == [i \in 1..Len(results) |-> Call("feed", i)]

\* what the API answers to the POST of callClaudeAPI: err is "do" when
\* client.Do fails, "read" when the read of the body fails, "nil" otherwise;
\* body is what json.Unmarshal makes of the body: whether it is accepted
\* and the texts of the content array
ClaudeReply(err, status, valid, content) ==
    [err |-> err, status |-> status, body |-> [valid |-> valid, content |-> content]]

\* callClaudeAPI without the check of the status
callClaudeAPIAnyStatus(reply) ==
    IF reply.err = "do" THEN [text |-> <<>>, err |-> "failed to make request"]
    ELSE IF reply.err = "read" THEN [text |-> <<>>, err |-> "failed to read response"]
    ELSE IF ~reply.body.valid THEN [text |-> <<>>, err |-> "failed to unmarshal response"]
    ELSE IF Len(reply.body.content) = 0 THEN [text |-> <<>>, err |-> "no content in response"]
    ELSE [text |-> reply.body.content[1], err |-> "nil"]

\* callClaudeAPI: the text and the error ("nil" for none)
callClaudeAPI(reply) ==
    IF reply.err = "do" THEN [text |-> <<>>, err |-> "failed to make request"]
    ELSE IF reply.err = "read" THEN [text |-> <<>>, err |-> "failed to read response"]
    ELSE IF reply.status # 200
    THEN [text |-> <<>>, err |-> "API request failed with status"]
    ELSE IF ~reply.body.valid THEN [text |-> <<>>, err |-> "failed to unmarshal response"]
    ELSE IF Len(reply.body.content) = 0 THEN [text |-> <<>>, err |-> "no content in response"]
    ELSE [text |-> reply.body.content[1], err |-> "nil"]

\* SelectEvents from the answer of callClaudeAPI on, cutting the selection
\* to maxEvents
SelectAnsweredTruncated(events, maxEvents, claude) ==
    IF claude.err # "nil"
    THEN [events |-> <<>>, err |-> "failed to call Claude API",
          sent |-> <<Call("claude", [maxEvents |-> maxEvents, events |-> events])>>]
    ELSE IF parseSelection(claude.text).err # "nil"
    THEN [events |-> <<>>, err |-> "failed to parse selection",
          sent |-> <<Call("claude", [maxEvents |-> maxEvents, events |-> events])>>]
    ELSE [events |-> SubSeq(parseSelection(claude.text).events, 1,
                            Min(maxEvents, Len(parseSelection(claude.text).events))),
          err |-> "nil",
          sent |-> <<Call("claude", [maxEvents |-> maxEvents, events |-> events])>>]

\* SelectEvents from the answer of callClaudeAPI on
SelectAnswered(events, maxEvents, claude) ==
    IF claude.err # "nil"
    THEN [events |-> <<>>, err |-> "failed to call Claude API",
          sent |-> <<Call("claude", [maxEvents |-> maxEvents, events |-> events])>>]
    ELSE IF parseSelection(claude.text).err # "nil"
    THEN [events |-> <<>>, err |-> "failed to parse selection",
          sent |-> <<Call("claude", [maxEvents |-> maxEvents, events |-> events])>>]
    ELSE [events |-> parseSelection(claude.text).events, err |-> "nil",
          sent |-> <<Call("claude", [maxEvents |-> maxEvents, events |-> events])>>]

\* SelectEvents given the events and what the API answers: the selected
\* events, the error ("nil" for none) and the requests made
SelectEvents(events, maxEvents, reply) ==
    IF Len(events) = 0
    THEN [events |-> <<>>, err |-> "no events to select from", sent |-> <<>>]
    ELSE SelectAnswered(events, maxEvents, callClaudeAPI(reply))

\* the largest maxEvents a selector is made with
MaxRequested == 3

\* the answers of the API: the failures, and the answers whose first content
\* block is a document or a fenced document
ClaudeReplies ==
    {ClaudeReply("do", 0, FALSE, <<>>), ClaudeReply("read", 200, FALSE, <<>>),
     ClaudeReply("nil", 500, TRUE, <<>>), ClaudeReply("nil", 200, FALSE, <<>>),
     ClaudeReply("nil", 200, TRUE, <<>>)}
    \cup {ClaudeReply("nil", 200, TRUE, <<<<doc.text>>>>) : doc \in Documents}
    \cup {ClaudeReply("nil", 200, TRUE,
                      <<Fenced(<<>>, <<"j", "s", "o", "n">>, <<"\n", doc.text, "\n">>, <<>>),
                        <<"more">>>>) :
              doc \in {d \in Documents : Len(d.events) = 2}}

InitSelect ==
    /\ cronExpr = <<>>
    /\ now = 0
    /\ loc = UTC
    /\ CronAtRest /\ FeedsAtRest /\ PostAtRest /\ RSSAtRest /\ JobAtRest /\ MainAtRest /\ SchedulerAtRest
    /\ response = <<>> /\ extracted = None /\ selection = None
    /\ \E events \in {<<>>, <<<<1, 1>>>>, <<<<1, 1>>, <<1, 2>>, <<1, 3>>>>},
          maxEvents \in 1..MaxRequested, reply \in ClaudeReplies :
         selectArgs = <<[events |-> events, maxEvents |-> maxEvents, reply |-> reply]>>
    /\ answer = None
    /\ selectRet = None

CallClaudeAPI ==
    /\ answer = None
    /\ answer' = <<callClaudeAPI(selectArgs[1].reply)>>
    /\ UNCHANGED <<cronExpr, now, loc, cronVars, feedVars, postVars, response, extracted,
                   selection, selectArgs, selectRet, rssVars, jobVars, mainVars, schedVars>>

CallSelectEvents ==
    /\ selectRet = None
    /\ selectRet' = <<SelectEvents(selectArgs[1].events, selectArgs[1].maxEvents,
                                  selectArgs[1].reply)>>
    /\ UNCHANGED <<cronExpr, now, loc, cronVars, feedVars, postVars, response, extracted,
                   selection, selectArgs, answer, rssVars, jobVars, mainVars, schedVars>>

NextSelect == CallClaudeAPI \/ CallSelectEvents

SpecSelect == InitSelect /\ [][NextSelect]_vars

\* the holiday titles of the model, as their characters
PizzaDay == <<"P", "i", "z", "z", "a", " ", "D", "a", "y">>
PeaceDay == <<"P", "E", "A", "C", "E", " ", "D", "A", "Y">>
AwardDay == <<"A", "w", "a", "r", "d", " ", "D", "a", "y">>
WaDay == <<"W", "a", " ", "D", "a", "y">>
LowerWar == <<"w", "a", "r">>
\* the largest number of holidays in the holiday feed
MaxFeedHolidays == 3
HolidayTitles == {PizzaDay, PeaceDay, AwardDay, WaDay, LowerWar}

seriousKeywords ==
    {<<"I", "n", "t", "e", "r", "n", "a", "t", "i", "o", "n", "a", "l">>,
     <<"W", "o", "r", "l", "d">>,
     <<"N", "a", "t", "i", "o", "n", "a", "l", " ", "A", "w", "a", "r", "e", "n", "e", "s", "s">>,
     <<"D", "a", "y", " ", "f", "o", "r">>,
     <<"M", "e", "m", "o", "r", "i", "a", "l">>,
     <<"R", "e", "m", "e", "m", "b", "r", "a", "n", "c", "e">>,
     <<"V", "i", "c", "t", "i", "m", "s">>,
     <<"P", "r", "e", "v", "e", "n", "t", "i", "o", "n">>,
     <<"H", "u", "m", "a", "n", " ", "R", "i", "g", "h", "t", "s">>,
     <<"P", "e", "a", "c", "e">>,
     <<"C", "o", "n", "f", "l", "i", "c", "t">>,
     <<"W", "a", "r">>,
     <<"V", "i", "o", "l", "e", "n", "c", "e">>,
     <<"E", "x", "p", "l", "o", "i", "t", "a", "t", "i", "o", "n">>,
     <<"P", "o", "v", "e", "r", "t", "y">>,
     <<"H", "u", "n", "g", "e", "r">>,
     <<"D", "i", "s", "e", "a", "s", "e">>,
     <<"A", "w", "a", "r", "e", "n", "e", "s", "s", " ", "W", "e", "e", "k">>,
     <<"A", "w", "a", "r", "e", "n", "e", "s", "s", " ", "M", "o", "n", "t", "h">>,
     <<"S", "o", "l", "i", "d", "a", "r", "i", "t", "y">>,
     <<"A", "g", "a", "i", "n", "s", "t">>,
     <<"U", "n", "i", "t", "e", "d", " ", "N", "a", "t", "i", "o", "n", "s">>,
     <<"C", "o", "m", "m", "e", "m", "o", "r", "a", "t", "i", "o", "n">>}

\* the letters that strings.ToLower changes and what it makes of them
UpperCase ==
    <<"A", "B", "C", "D", "E", "F", "G", "H", "I", "J", "K", "L", "M", "N", "O", "P", "Q", "R", "S", "T", "U", "V", "W", "X", "Y", "Z">>
LowerCase ==
    <<"a", "b", "c", "d", "e", "f", "g", "h", "i", "j", "k", "l", "m", "n", "o", "p", "q", "r", "s", "t", "u", "v", "w", "x", "y", "z">>
ToLowerChar(c) ==
    IF \E k \in 1..26 : UpperCase[k] = c
    THEN LowerCase[CHOOSE k \in 1..26 : UpperCase[k] = c]
    ELSE c
ToLower(s) == [i \in 1..Len(s) |-> ToLowerChar(s[i])]

\* contains without the change to lower case
containsCaseSensitive(s, substr) ==
    Len(s) >= Len(substr) /\ (s = substr \/ Contains(s, substr))

\* contains(s, substr) of main.go
contains(s, substr) ==
    Len(s) >= Len(substr) /\ (s = substr \/ Contains(ToLower(s), ToLower(substr)))

\* filterFunHolidays: the holidays whose title has none of the keywords
RECURSIVE filterFunHolidays(_)
filterFunHolidays(holidays) ==
    IF holidays = <<>> THEN <<>>
    ELSE IF \E keyword \in seriousKeywords : contains(Head(holidays), keyword)
    THEN filterFunHolidays(Tail(holidays))
    ELSE <<Head(holidays)>> \o filterFunHolidays(Tail(holidays))

\* the titles of the first maxCount fun holidays
LimitHolidays(funHolidays, maxCount) ==
    SubSeq(funHolidays, 1, Min(maxCount, Len(funHolidays)))

\* the holidays fetched whether a holiday feed URL is configured or not
JobHolidaysAlwaysFetching(cfg, feed) ==
    IF feed.err THEN [holidays |-> <<>>, sent |-> <<Call("holidays", <<>>)>>]
    ELSE [holidays |-> LimitHolidays(filterFunHolidays(feed.holidays), cfg.MaxHolidays),
          sent |-> <<Call("holidays", <<>>)>>]

\* the holidays to display and the request made for them; feed is what
\* FetchHolidays yields
JobHolidays(cfg, feed) ==
    IF ~cfg.HolidayFeedURL THEN [holidays |-> <<>>, sent |-> <<>>]
    ELSE IF feed.err THEN [holidays |-> <<>>, sent |-> <<Call("holidays", <<>>)>>]
    ELSE [holidays |-> LimitHolidays(filterFunHolidays(feed.holidays), cfg.MaxHolidays),
          sent |-> <<Call("holidays", <<>>)>>]

\* the requests of the poster
PostCalls(posted) == [i \in 1..Len(posted.sent) |-> Call("slack", posted.sent[i])]

\* the job from the post on
JobPost(sent, posted) ==
    [err |-> posted.err, calls |-> sent \o PostCalls(posted)]

\* the job from the fetch of the holidays on
JobAfterSelect(args, sent, selected, h) ==
    JobPost(sent \o h.sent,
            PostEventsWithHolidays(selected.events, h.holidays, args.urlValid, args.slack))

\* the job from the selection on, going on to the holidays and to the post
\* whether the selection failed or not
JobAfterAnySelection(args, sent, selected) ==
    JobAfterSelect(args, sent \o selected.sent, selected,
                   JobHolidays(args.cfg, args.holidays))

\* the job from the selection on, returning without the holidays and without
\* the post when the selection failed
JobAfterFetch(args, sent, selected) ==
    IF selected.err # "nil" THEN [err |-> selected.err, calls |-> sent \o selected.sent]
    ELSE JobAfterSelect(args, sent \o selected.sent, selected,
                        JobHolidays(args.cfg, args.holidays))

\* the job once FetchMultipleFeeds has returned
JobOf(args, fetched_) ==
    IF fetched_.err
    THEN [err |-> "no events fetched from any feed", calls |-> FeedCalls(args.feeds)]
    ELSE JobAfterFetch(args, FeedCalls(args.feeds),
                       SelectEvents(fetched_.events, args.cfg.MaxEvents, args.claude))

\* the function createJob returns
Job(args) == JobOf(args, FetchMultipleFeeds(args.feeds))

\* the configurations, and what the calls of the job may yield
Configs == [MaxEvents : {1, 2}, MaxHolidays : {1, 2}, HolidayFeedURL : BOOLEAN]
\* at most two feeds, each failing, empty or with three items
JobFeeds ==
    {f \in FeedResults :
        Len(f) <= 2 /\ \A i \in 1..Len(f) : f[i].err \/ Len(f[i].events) \in {0, 3}}
HolidayFeeds ==
    {[err |-> TRUE, holidays |-> <<>>]}
    \cup {[err |-> FALSE, holidays |-> h] : h \in SeqsUpTo({PizzaDay, PeaceDay}, 2)}

InitJob ==
    /\ cronExpr = <<>>
    /\ now = 0
    /\ loc = UTC
    /\ CronAtRest /\ FeedsAtRest /\ PostAtRest /\ LLMAtRest /\ RSSAtRest
    /\ MainAtRest /\ SchedulerAtRest
    /\ \E cfg \in Configs, feeds \in JobFeeds, claude \in ClaudeReplies,
          holidays \in HolidayFeeds, urlValid \in BOOLEAN, slack \in SlackReplies :
         jobArgs = <<[cfg |-> cfg, feeds |-> feeds, claude |-> claude,
                      holidays |-> holidays, urlValid |-> urlValid, slack |-> slack]>>
    /\ calls = <<>>
    /\ jobRet = None

RunJob ==
    /\ jobRet = None
    /\ \E r \in {Job(jobArgs[1])} :
         /\ calls' = calls \o r.calls
         /\ jobRet' = <<r.err>>
    /\ UNCHANGED <<cronExpr, now, loc, cronVars, feedVars, postVars, llmVars, rssVars,
                   jobArgs, mainVars, schedVars>>

NextJob == RunJob

SpecJob == InitJob /\ [][NextJob]_vars

HolidayDocument == CHOOSE doc \in Documents : doc.events = <<2, 1>>

\* the job with feeds and an answer that succeed, over the holiday feeds of
\* up to MaxFeedHolidays holidays and the values of cfg.MaxHolidays
InitHolidays ==
    /\ cronExpr = <<>>
    /\ now = 0
    /\ loc = UTC
    /\ CronAtRest /\ FeedsAtRest /\ PostAtRest /\ LLMAtRest /\ RSSAtRest
    /\ MainAtRest /\ SchedulerAtRest
    /\ \E maxHolidays \in (0 - 1)..(MaxFeedHolidays + 1), url \in BOOLEAN,
          holidays \in {[err |-> TRUE, holidays |-> <<>>]}
                       \cup {[err |-> FALSE, holidays |-> h] :
                                h \in SeqsUpTo(HolidayTitles, MaxFeedHolidays)},
          slack \in SlackReplies :
         jobArgs = <<[cfg |-> [MaxEvents |-> 2, MaxHolidays |-> maxHolidays,
                               HolidayFeedURL |-> url],
                      feeds |-> <<FetchAndParse(1, FALSE, 3)>>,
                      claude |-> ClaudeReply("nil", 200, TRUE, <<<<HolidayDocument.text>>>>),
                      holidays |-> holidays, urlValid |-> TRUE, slack |-> slack]>>
    /\ calls = <<>>
    /\ jobRet = None

SpecHolidays == InitHolidays /\ [][NextJob]_vars

(***************************************************************************)
(* The fields of a schedule string as a reader of the expression sees      *)
(* them: the maximal runs of non-space characters.                         *)
(***************************************************************************)
RECURSIVE Fields(_)
Fields(s) ==
    IF s = <<>> THEN <<>>
    ELSE IF isSpace(Head(s)) THEN Fields(Tail(s))
    ELSE LET e == AcceptRun(s, 1, {s[k] : k \in 1..Len(s)} \ {" ", "\t", "\r", "\n"})
         IN  <<SubSeq(s, 1, e - 1)>> \o Fields(SubSeq(s, e, Len(s)))

\* an integer literal: an optional sign and one or more digits
IsInteger(f) ==
    LET d == IF f # <<>> /\ Head(f) \in {"+", "-"} THEN Tail(f) ELSE f
    IN  d # <<>> /\ \A k \in 1..Len(d) : d[k] \in Digits

TwoIntegerFields(s) ==
    /\ Len(Fields(s)) >= 2
    /\ IsInteger(Fields(s)[1])
    /\ IsInteger(Fields(s)[2])

MinuteField(s) == ParseInt(Fields(s)[1])
HourField(s) == ParseInt(Fields(s)[2])


(***************************************************************************)
(* Claims on the schedule calculator.                                      *)
(***************************************************************************)
\* C1: for every schedule that ParseCron accepts and every instant now,
\* NextRunTime returns an instant whose hour and minute are the parsed ones
\* with zero seconds, that is not earlier than now, and whose date is today's
\* when today's occurrence is not yet past and tomorrow's otherwise.
C1_NextRunIsNextOccurrence ==
    (nextRun # None /\ ~nextRun[1].err) =>
        LET t     == nextRun[1].time
            today == Date(DayOf(now, loc), parsed[1].hour, parsed[1].minute, loc)
        IN  /\ HourOf(t, loc) = parsed[1].hour
            /\ MinuteOf(t, loc) = parsed[1].minute
            /\ SecondOf(t, loc) = 0
            /\ t >= now
            /\ DayOf(t, loc) = IF now > today THEN DayOf(now, loc) + 1 ELSE DayOf(now, loc)

\* C2: ParseCron returns an error when the hour field is outside 0..23, when
\* the minute field is outside 0..59 and when the string has fewer than two
\* leading integer fields; on success hour is the second field and minute
\* the first.
C2_ParseCronRejects ==
    parsed # None =>
        /\ ~TwoIntegerFields(cronExpr) => parsed[1].err
        /\ (TwoIntegerFields(cronExpr) /\ HourField(cronExpr) \notin 0..23) => parsed[1].err
        /\ (TwoIntegerFields(cronExpr) /\ MinuteField(cronExpr) \notin 0..59) => parsed[1].err
        /\ ~parsed[1].err => /\ parsed[1].hour = HourField(cronExpr)
                          /\ parsed[1].minute = MinuteField(cronExpr)

\* ParseCron has rejected an expression of five fields for its hour of 24
C2_Witness ==
    /\ parsed # None
    /\ parsed[1].err
    /\ Len(Fields(cronExpr)) = 5
    /\ TwoIntegerFields(cronExpr)
    /\ MinuteField(cronExpr) \in 0..59
    /\ HourField(cronExpr) = 24

\* C3: ParseCron succeeds for every schedule string whose first two
\* whitespace-separated fields are integers with minute in 0..59 and hour in
\* 0..23, whatever the remaining fields are and whether or not they are
\* present, and returns those two fields.
C3_OnlyTwoFieldsHonored ==
    (/\ parsed # None
     /\ TwoIntegerFields(cronExpr)
     /\ MinuteField(cronExpr) \in 0..59
     /\ HourField(cronExpr) \in 0..23)
        => /\ ~parsed[1].err
           /\ parsed[1].hour = HourField(cronExpr)
           /\ parsed[1].minute = MinuteField(cronExpr)


(***************************************************************************)
(* Claims on the scheduler and the process.                                *)
(***************************************************************************)
\* the runs that have returned, and the run in flight
Ended(k) == runs[k].end # NoTime
InFlight == runs # <<>> /\ runs[Len(runs)].end = NoTime

\* C4: with runOnce set, Start executes the job exactly once and returns
\* without entering the tick loop: nil when the job returned nil, an error
\* wrapping the job's error when the job failed.
C4_RunOnceRunsOnce ==
    runOnce =>
        /\ Len(runs) <= 1
        /\ schedPC # "wait_tick" /\ tickerNext = NoTime /\ ~tickerC
        /\ startRet # None =>
              /\ Len(runs) = 1 /\ Ended(1)
              /\ startRet[1] = IF runs[1].err THEN "job failed" ELSE "nil"

\* Start has returned the error of the failed single run
C4_Witness ==
    /\ runOnce
    /\ Len(runs) = 1 /\ Ended(1) /\ runs[1].err
    /\ startRet = <<"job failed">>

\* C5: in run-once mode the process ends in failure when the single job run
\* failed and in success when it succeeded.
C5_ExitReflectsJob ==
    (runOnce /\ mainPC = "exited" /\ Len(runs) = 1 /\ Ended(1)) =>
        exitCode = IF runs[1].err THEN 1 ELSE 0

\* C6: in scheduled mode the first job run starts at the first computed run
\* instant, and starts immediately when that instant is already past at the
\* moment StartAt is called.
C6_FirstRunAtFirstInstantOrAtOnce ==
    (~runOnce /\ runs # <<>>) =>
        runs[1].start = IF firstRun < startAtCalled THEN startAtCalled ELSE firstRun

\* C6 as amended: in scheduled mode the first job run starts at the first
\* computed run instant, and 24 hours after that instant when it is already
\* past (by less than 24 hours) at the moment StartAt is called.
C6_FirstRunAtFirstInstantOrNextDay ==
    (~runOnce /\ runs # <<>>) =>
        /\ startAtCalled - firstRun < 24 * Hour
        /\ runs[1].start = IF firstRun < startAtCalled THEN firstRun + 24 * Hour
                           ELSE firstRun

\* the first run has started a day after an instant that StartAt found past
C6_Witness ==
    /\ ~runOnce
    /\ runs # <<>>
    /\ firstRun < startAtCalled
    /\ runs[1].start = firstRun + 24 * Hour

\* the first run has started at an instant that StartAt found ahead
C6_WitnessAhead ==
    /\ ~runOnce
    /\ runs # <<>>
    /\ firstRun > startAtCalled
    /\ runs[1].start = firstRun


\* C7: in scheduled mode a failing job run never makes Start return and never
\* stops the ticker: after a run, failed or not, the scheduler is back in its
\* select with the ticker running, from there it leaves only to run the job
\* again (at the instant of the tick, no time passes while a tick is pending)
\* unless cancelled, and Start returns nothing but the context's error.
C7_FailedRunKeepsSchedule ==
    [][~runOnce =>
         /\ (schedPC = "job" /\ schedPC' # "job") =>
               /\ schedPC' = "wait_tick"
               /\ tickerNext' # NoTime
               /\ startRet' = None
         /\ (schedPC = "wait_tick" /\ ~ctxDone /\ schedPC' # "wait_tick") =>
               /\ tickerC
               /\ schedPC' = "job"
               /\ runs' = Append(runs, [kind |-> "scheduled", start |-> now,
                                        end |-> NoTime, err |-> FALSE])
         /\ (schedPC = "wait_tick" /\ tickerC) => now' = now
         /\ startRet' # None => (startRet' = <<"canceled">> /\ ctxDone)]_vars

\* a failed initial run and a failed ticked run were each followed by a run
C7_Witness ==
    /\ ~runOnce
    /\ Len(runs) = 3
    /\ runs[1].kind = "initial" /\ runs[1].err
    /\ runs[2].kind = "scheduled" /\ runs[2].err
    /\ runs[3].start = runs[2].start + DailyInterval

\* the parts of C8 that do not depend on which case a select takes: after
\* cancellation the scheduler eventually returns the context's error, and a
\* select of StartAt that finds ctx cancelled and the timer not due returns
\* with no job run
CancelStops ==
    (~runOnce /\ ctxDone /\ schedPC \in {"wait_first", "job", "wait_tick"})
        ~> (schedPC = "returned" /\ startRet = <<"canceled">>)

CancelInFirstWait ==
    [][(~runOnce /\ schedPC = "wait_first" /\ ctxDone /\ now < timer) =>
          \/ UNCHANGED <<schedPC, now, runs>>
          \/ (schedPC' = "returned" /\ startRet' = <<"canceled">> /\ runs' = <<>>)]_vars

C9_InFlightRunCompletes ==
    mainPC = "exited" => ~InFlight


(***************************************************************************)
(* Claims on the feed aggregation.                                         *)
(***************************************************************************)
\* the number of events of the feeds among the first i that succeeded
RECURSIVE EventsUpTo(_, _)
EventsUpTo(results, i) ==
    IF i = 0 THEN 0
    ELSE EventsUpTo(results, i - 1) + IF results[i].err THEN 0 ELSE Len(results[i].events)

\* C10: FetchMultipleFeeds skips every feed whose fetch or parse fails and
\* returns the concatenation, in URL order, of the events of the feeds that
\* succeeded (the k-th event of a feed that succeeded stands right after all
\* the events of the succeeded feeds before it, and there is nothing else);
\* it returns an error if and only if the number of events obtained across
\* all feeds is zero.
C10_FetchMultipleFeeds ==
    fetched # None =>
        LET total == EventsUpTo(feedResults, Len(feedResults))
        IN  /\ fetched[1].err <=> total = 0
            /\ ~fetched[1].err =>
                 /\ Len(fetched[1].events) = total
                 /\ \A i \in 1..Len(feedResults) :
                      ~feedResults[i].err =>
                         \A k \in 1..Len(feedResults[i].events) :
                            fetched[1].events[EventsUpTo(feedResults, i - 1) + k]
                               = feedResults[i].events[k]

\* the events of two feeds were returned although the feed between them failed
C10_Witness ==
    /\ fetched # None
    /\ Len(feedResults) = 3
    /\ ~feedResults[1].err /\ feedResults[2].err /\ ~feedResults[3].err
    /\ ~fetched[1].err
    /\ fetched[1].events = feedResults[1].events \o feedResults[3].events
    /\ feedResults[1].events # <<>> /\ feedResults[3].events # <<>>

\* every feed succeeded but was empty, and FetchMultipleFeeds returned an error
C10_WitnessAllEmpty ==
    /\ fetched # None
    /\ Len(feedResults) = 2
    /\ \A i \in 1..2 : ~feedResults[i].err /\ feedResults[i].events = <<>>
    /\ fetched[1].err

\* C11 (as stated): PostEventsWithHolidays called with no event and no
\* holiday returns an error and sends no HTTP request; called with an event
\* or a holiday it sends the POST
C11_PostIffSomethingToPost ==
    postRet # None =>
        /\ postArgs[1].events = <<>> /\ postArgs[1].holidays = <<>>
              => postRet[1] # "nil" /\ requests = <<>>
        /\ (postArgs[1].events # <<>> \/ postArgs[1].holidays # <<>>)
              => Len(requests) = 1

\* C11 (amended): called with no event and no holiday it returns an error
\* and sends no HTTP request; called with an event or a holiday, and a
\* webhook URL that http.NewRequest accepts, it sends one POST, of the
\* formatted message
C11_PostIffSomethingToPostAndValidURL ==
    postRet # None =>
        /\ postArgs[1].events = <<>> /\ postArgs[1].holidays = <<>>
              => postRet[1] # "nil" /\ requests = <<>>
        /\ (postArgs[1].events # <<>> \/ postArgs[1].holidays # <<>>) /\ postArgs[1].urlValid
              => requests = <<formatMessageWithHolidays(postArgs[1].events,
                                                        postArgs[1].holidays)>>

\* holidays and no event, posted
C11_Witness ==
    /\ postRet # None
    /\ postArgs[1].events = <<>> /\ postArgs[1].holidays # <<>>
    /\ Len(requests) = 1

\* nothing to post, rejected
C11_WitnessNothing ==
    /\ postRet # None
    /\ postArgs[1].events = <<>> /\ postArgs[1].holidays = <<>>
    /\ postArgs[1].urlValid
    /\ postRet[1] = "no events or holidays to post"

\* C12: extractJSON returns exactly the interior of the fenced block of a
\* text wrapped in a fence, whatever the language tag of the opening fence
\* (none, json or another one), and returns a text without a fence unchanged
C12_ExtractJSONReturnsInterior ==
    extracted # None =>
        /\ \A prefix \in Prefixes, tag \in Tags, interior \in Interiors, suffix \in Suffixes :
              response = Fenced(prefix, tag, interior, suffix) => extracted[1] = interior
        /\ ~Contains(response, Fence) => extracted[1] = response

\* the answers that hold the document doc bare or wrapped in a fence that
\* extractJSON strips (no tag or the tag json)
Holds(text, doc) ==
    \E pre \in {<<>>, <<"\n">>}, post \in {<<>>, <<"\n">>} :
        \/ text = pre \o <<doc.text>> \o post
        \/ \E prefix \in Prefixes, tag \in {<<>>, <<"j", "s", "o", "n">>}, suffix \in Suffixes :
              text = Fenced(prefix, tag, pre \o <<doc.text>> \o post, suffix)

\* C13: parseSelection returns an error when the answer, its fence
\* stripped, does not deserialize as the selection object and when its
\* events array is empty or absent; otherwise it returns the events of the
\* array; it never returns an empty list with a nil error
C13_ParseSelectionRejectsEmpty ==
    selection # None =>
        /\ selection[1].err = "nil" => selection[1].events # <<>>
        /\ \A doc \in Documents :
              Holds(response, doc) =>
                 IF doc.err \/ doc.events = <<>>
                 THEN selection[1].err # "nil"
                 ELSE selection[1] = [events |-> doc.events, err |-> "nil"]

\* two events in a fence tagged json, returned in their order
C13_Witness ==
    /\ selection # None
    /\ Contains(response, FenceJSON)
    /\ selection[1] = [events |-> <<2, 1>>, err |-> "nil"]

\* an empty events array in a well-formed answer, rejected
C13_WitnessEmpty ==
    /\ selection # None
    /\ response = <<"{\"events\": []}">>
    /\ selection[1].err = "no events in selection"

\* C14: cleanHTML is idempotent, cleanHTML(cleanHTML(s)) = cleanHTML(s)
C14_CleanHTMLIdempotent ==
    cleaned # None => cleanHTML(cleaned[1]) = cleaned[1]

\* a text with a tag and a break, cleaned to text on two lines
C14_Witness ==
    /\ cleaned # None
    /\ Contains(html, <<"<", "a", ">">>)
    /\ Contains(html, <<"<", "b", "r", ">">>)
    /\ Contains(cleaned[1], <<"\n">>)
    /\ ~Contains(cleaned[1], <<"<">>)

\* a text with three newlines in a row, squeezed to two
C14_WitnessSqueezed ==
    /\ cleaned # None
    /\ Contains(html, <<"\n", "\n", "\n">>)
    /\ Contains(cleaned[1], <<"\n", "\n">>)

\* the position of the first colon of the title, 0 when it has none
FirstColon(title) ==
    IF \E i \in 1..Len(title) : title[i] = ":"
    THEN CHOOSE i \in 1..Len(title) : title[i] = ":" /\ \A j \in 1..(i - 1) : title[j] # ":"
    ELSE 0

\* what C15 says of Category and Link
CategoryAndLink ==
    /\ event[1].Category = (IF item.Categories = <<>> THEN "" ELSE Head(item.Categories))
    /\ event[1].Link = item.Link

\* C15 (as stated): parseItem splits the title at its first colon; the
\* trimmed text before it is the Year and the text after it, later colons
\* kept, is the Title; a title without a colon gives an empty Year and the
\* title unchanged; Category is the first category or empty, Link is copied
C15_TitleIsTextAfterFirstColon ==
    event # None =>
        /\ CategoryAndLink
        /\ IF FirstColon(item.Title) = 0
           THEN event[1].Year = <<>> /\ event[1].Title = item.Title
           ELSE /\ event[1].Year = TrimSpace(SubSeq(item.Title, 1, FirstColon(item.Title) - 1))
                /\ event[1].Title
                      = SubSeq(item.Title, FirstColon(item.Title) + 1, Len(item.Title))

\* C15 (amended): as above, with the Title the trimmed text after the
\* first colon
C15_TitleIsTrimmedTextAfterFirstColon ==
    event # None =>
        /\ CategoryAndLink
        /\ IF FirstColon(item.Title) = 0
           THEN event[1].Year = <<>> /\ event[1].Title = item.Title
           ELSE /\ event[1].Year = TrimSpace(SubSeq(item.Title, 1, FirstColon(item.Title) - 1))
                /\ event[1].Title
                      = TrimSpace(SubSeq(item.Title, FirstColon(item.Title) + 1,
                                         Len(item.Title)))

\* a year, a colon, a space and the text, with two categories
C15_Witness ==
    /\ event # None
    /\ item.Title = <<"1", ":", " ", "A">>
    /\ event[1].Year = <<"1">> /\ event[1].Title = <<"A">>
    /\ Len(item.Categories) = 2 /\ event[1].Category = item.Categories[1]

\* a title with two colons: the second one stays in the Title
C15_WitnessLaterColon ==
    /\ event # None
    /\ item.Title = <<"1", ":", "A", ":">>
    /\ event[1].Year = <<"1">> /\ event[1].Title = <<"A", ":">>

\* the requests made to the destination to
CallsTo(to) == SelectSeq(calls, LAMBDA c : c.to = to)

\* the events of the event sections of a message, in order
EventSections(message) ==
    LET sections == SelectSeq(message, LAMBDA b : b.type = "section" /\ b.text # <<>>
                                                    /\ b.text[1] = "event")
    IN  [i \in 1..Len(sections) |-> sections[i].text[2]]

\* the API answered the job's request with a text
ClaudeAnswered ==
    /\ jobArgs[1].claude.err = "nil" /\ jobArgs[1].claude.status = 200
    /\ jobArgs[1].claude.body.valid /\ jobArgs[1].claude.body.content # <<>>
ClaudeText == jobArgs[1].claude.body.content[1]

\* two feeds, one with three items and one that failed
ThreeAndFailed ==
    /\ Len(jobArgs[1].feeds) = 2
    /\ \E i \in 1..2 :
          /\ ~jobArgs[1].feeds[i].err /\ Len(jobArgs[1].feeds[i].events) = 3
          /\ jobArgs[1].feeds[3 - i].err

\* the events the feed that did not fail returned
ThreeEvents ==
    LET i == CHOOSE i \in 1..2 : ~jobArgs[1].feeds[i].err
    IN  jobArgs[1].feeds[i].events

\* C16 (as stated): with two feeds, one returning 3 items and one failing,
\* exactly 3 events are passed to the selection; and when at most 2 events
\* are requested from the LLM, the posted message has exactly 2 event
\* sections, in the order the LLM returned them
C16_TwoSectionsWhenTwoRequested ==
    jobRet # None /\ ThreeAndFailed =>
        /\ Len(CallsTo("claude")) = 1
        /\ CallsTo("claude")[1].body.events = ThreeEvents
        /\ jobArgs[1].cfg.MaxEvents = 2 /\ CallsTo("slack") # <<>>
              => /\ Len(EventSections(CallsTo("slack")[1].body)) = 2
                 /\ \A doc \in Documents :
                       (ClaudeAnswered /\ Holds(ClaudeText, doc))
                          => EventSections(CallsTo("slack")[1].body) = doc.events

\* the part of C16 that holds: with two feeds, one returning 3 items and one failing,
\* exactly 3 events are passed to the selection; the posted message has one
\* event section for each event the LLM returned, in the order it returned
\* them, whatever the number of events requested
C16_OneSectionPerReturnedEvent ==
    jobRet # None /\ ThreeAndFailed =>
        /\ Len(CallsTo("claude")) = 1
        /\ CallsTo("claude")[1].body.events = ThreeEvents
        /\ CallsTo("slack") # <<>>
              => /\ Len(CallsTo("slack")) = 1
                 /\ \E doc \in Documents :
                       /\ (ClaudeAnswered /\ Holds(ClaudeText, doc))
                       /\ EventSections(CallsTo("slack")[1].body) = doc.events

\* three events fetched, two requested, two returned and posted in the
\* LLM's order, after the holidays
C16_Witness ==
    /\ jobRet = <<"nil">> /\ ThreeAndFailed
    /\ jobArgs[1].cfg.MaxEvents = 2
    /\ Len(CallsTo("holidays")) = 1
    /\ EventSections(CallsTo("slack")[1].body) = <<2, 1>>

\* two events requested, three returned and posted
C16_WitnessThree ==
    /\ jobRet = <<"nil">> /\ ThreeAndFailed
    /\ jobArgs[1].cfg.MaxEvents = 2
    /\ EventSections(CallsTo("slack")[1].body) = <<3, 1, 2>>

\* the place of a request in the order of the stages
Stage(c) ==
    CASE c.to = "feed" -> 1 [] c.to = "claude" -> 2 [] c.to = "holidays" -> 3
      [] c.to = "slack" -> 4

\* some feed was fetched and had events
FetchSucceeded ==
    \E i \in 1..Len(jobArgs[1].feeds) :
        ~jobArgs[1].feeds[i].err /\ jobArgs[1].feeds[i].events # <<>>

\* the LLM answered with a document that has events
SelectionSucceeded ==
    /\ ClaudeAnswered
    /\ \E doc \in Documents :
          (ClaudeAnswered /\ Holds(ClaudeText, doc)) /\ ~doc.err /\ doc.events # <<>>

\* C19: in one job invocation the stages run in the order fetch feeds,
\* select via LLM, fetch holidays, post; the webhook is POSTed only if the
\* fetch and the selection both succeeded; a failure of the fetch or of the
\* selection makes the job return that error without fetching holidays and
\* without posting
C19_StagesInOrder ==
    jobRet # None =>
        /\ \A i, j \in 1..Len(calls) : i < j => Stage(calls[i]) <= Stage(calls[j])
        /\ \A to \in {"claude", "holidays", "slack"} : Len(CallsTo(to)) <= 1
        /\ CallsTo("slack") # <<>> => FetchSucceeded /\ SelectionSucceeded
        /\ ~FetchSucceeded
              => /\ jobRet[1] = "no events fetched from any feed"
                 /\ \A i \in 1..Len(calls) : calls[i].to = "feed"
        /\ FetchSucceeded /\ ~SelectionSucceeded
              => /\ jobRet[1] \in {"failed to call Claude API", "failed to parse selection"}
                 /\ Len(CallsTo("claude")) = 1
                 /\ CallsTo("holidays") = <<>> /\ CallsTo("slack") = <<>>
        /\ FetchSucceeded /\ SelectionSucceeded /\ jobArgs[1].cfg.HolidayFeedURL
              => Len(CallsTo("claude")) = 1 /\ Len(CallsTo("holidays")) = 1

\* all four stages ran, in order
C19_Witness ==
    /\ jobRet = <<"nil">>
    /\ Len(jobArgs[1].feeds) = 2
    /\ [i \in 1..Len(calls) |-> calls[i].to] = <<"feed", "feed", "claude", "holidays", "slack">>

\* the selection failed after a fetch that succeeded: neither holidays nor post
C19_WitnessSelectionFailed ==
    /\ jobRet = <<"failed to parse selection">>
    /\ jobArgs[1].cfg.HolidayFeedURL /\ jobArgs[1].urlValid
    /\ [i \in 1..Len(calls) |-> calls[i].to] = <<"feed", "claude">>

\* C17: an unparsable schedule expression is fatal at startup in scheduled
\* mode only: in scheduled mode the process stops, in failure, before any
\* job run starts; in run-once mode the expression is not consulted, the
\* process does not stop at startup and the job runs once (always when no
\* signal stops the process first)
C17_BadScheduleFatalWhenScheduled ==
    ParseCron(cronExpr).err =>
        IF runOnce
        THEN /\ Len(runs) <= 1
             /\ mainPC = "exited" => exitCode = 0
             /\ startRet # None => Len(runs) = 1 /\ Ended(1)
             /\ mainPC = "exited" /\ ~ctxDone => Len(runs) = 1 /\ Ended(1)
        ELSE /\ runs = <<>> /\ schedPC = "none"
             /\ mainPC \in {"start", "exited"}
             /\ mainPC = "exited" => exitCode = 1

\* run-once mode with a schedule that does not parse: the job has run
C17_Witness ==
    /\ ParseCron(cronExpr).err /\ runOnce
    /\ mainPC = "exited"
    /\ Len(runs) = 1 /\ Ended(1)

\* scheduled mode with a schedule that does not parse: stopped at startup
C17_WitnessFatal ==
    /\ ParseCron(cronExpr).err /\ ~runOnce
    /\ mainPC = "exited" /\ exitCode = 1

\* the states of the scheduler
Idle == schedPC \in {"spawned", "wait_first", "wait_tick"}
Running == schedPC = "job"
Terminated == schedPC = "returned"

\* C18: the scheduler is always in exactly one of the states Idle, Running
\* (one job run in progress) and Terminated; at most one job run is in
\* progress at any time; a new run starts only from Idle; once Start or
\* StartAt has returned no job run ever starts again
C18_IdleRunningTerminated ==
    /\ [](/\ Idle \/ Running \/ Terminated
          /\ Running <=> InFlight
          /\ Terminated <=> startRet # None
          /\ \A k \in 1..(Len(runs) - 1) : Ended(k))
    /\ [][/\ runs' # runs /\ Len(runs') > Len(runs)
                => Idle /\ Running' /\ Len(runs') = Len(runs) + 1
          /\ Terminated => Terminated' /\ runs' = runs]_vars

\* a third run in flight after two that ended
C18_Witness ==
    /\ Len(runs) = 3 /\ Ended(1) /\ Ended(2) /\ InFlight
    /\ Running

\* C20: in scheduled mode every job run after the first starts a whole
\* multiple of 24 hours after the start of the first run
C20_RunsOnCadenceOfFirstStart ==
    ~runOnce =>
        \A k \in 2..Len(runs) : (runs[k].start - runs[1].start) % DailyInterval = 0

\* the blocks of a message that are made of holidays
HolidayBlocks(message) ==
    SelectSeq(message, LAMBDA b : b.type = "section" /\ b.text # <<>> /\ b.text[1] # "event")

\* C21: a failure of the holiday fetch is not fatal: the job goes on with
\* no holidays, still posts the selected events, and returns what the post
\* returns; without a holiday feed URL no holiday fetch is made at all
C21_HolidayFailureNotFatal ==
    jobRet # None /\ FetchSucceeded /\ SelectionSucceeded =>
        /\ ~jobArgs[1].cfg.HolidayFeedURL => CallsTo("holidays") = <<>>
        /\ jobArgs[1].cfg.HolidayFeedURL /\ jobArgs[1].holidays.err =>
              /\ Len(CallsTo("holidays")) = 1
              /\ jobArgs[1].urlValid =>
                    /\ Len(CallsTo("slack")) = 1
                    /\ HolidayBlocks(CallsTo("slack")[1].body) = <<>>
                    /\ EventSections(CallsTo("slack")[1].body) # <<>>
              /\ jobRet[1] = "nil"
                    <=> /\ jobArgs[1].urlValid
                        /\ ~jobArgs[1].slack.err /\ jobArgs[1].slack.read
                        /\ jobArgs[1].slack.status = 200

\* the holiday fetch failed and the events were posted
C21_Witness ==
    /\ jobRet = <<"nil">>
    /\ jobArgs[1].cfg.HolidayFeedURL /\ jobArgs[1].holidays.err
    /\ Len(CallsTo("holidays")) = 1 /\ Len(CallsTo("slack")) = 1
    /\ Len(EventSections(CallsTo("slack")[1].body)) = 2

\* no holiday feed URL: the events were posted without a holiday fetch
C21_WitnessNoURL ==
    /\ jobRet = <<"nil">>
    /\ ~jobArgs[1].cfg.HolidayFeedURL
    /\ CallsTo("holidays") = <<>> /\ Len(CallsTo("slack")) = 1

\* two characters that are the same letter, whatever their case
SameLetter(a, b) ==
    a = b \/ \E k \in 1..26 : {a, b} = {UpperCase[k], LowerCase[k]}

\* the keyword occurs in the title, whatever the case of the letters
Occurs(keyword, title) ==
    \E i \in 0..(Len(title) - Len(keyword)) :
        \A j \in 1..Len(keyword) : SameLetter(title[i + j], keyword[j])

\* the holidays of a feed with none of the keywords in their title
Survivors(holidays) ==
    SelectSeq(holidays, LAMBDA title : \A keyword \in seriousKeywords : ~Occurs(keyword, title))

\* the first min(n, Len(q)) elements of q, none for n <= 0
FirstOf(q, n) ==
    [i \in 1..(IF n <= 0 THEN 0 ELSE IF n < Len(q) THEN n ELSE Len(q)) |-> q[i]]

\* the holidays of a message, from the lines of its holiday section
PostedHolidays(message) ==
    IF Len(message) >= 4 /\ message[3].text = <<"Today's Fun Holidays">>
    THEN [i \in 1..((Len(message[4].text) + 1) \div 3) |-> message[4].text[3 * i - 1]]
    ELSE <<>>

\* C22: the holidays posted are the titles of the first min(MaxHolidays, k)
\* of the k fetched holidays that survive the filter, in feed order, none
\* when MaxHolidays is zero or negative; the filter keeps, in order, exactly
\* the holidays whose title contains none of the keywords under
\* case-insensitive substring match
C22_PostedHolidays ==
    jobRet # None /\ jobArgs[1].cfg.HolidayFeedURL /\ ~jobArgs[1].holidays.err
    /\ CallsTo("slack") # <<>> =>
        PostedHolidays(CallsTo("slack")[1].body)
           = FirstOf(Survivors(jobArgs[1].holidays.holidays), jobArgs[1].cfg.MaxHolidays)

\* three holidays fetched, the first one dropped for a keyword in another
\* case, one of the two others posted
C22_Witness ==
    /\ jobRet # None
    /\ jobArgs[1].cfg.HolidayFeedURL /\ jobArgs[1].cfg.MaxHolidays = 1
    /\ jobArgs[1].holidays.holidays = <<PeaceDay, PizzaDay, WaDay>>
    /\ PostedHolidays(CallsTo("slack")[1].body) = <<PizzaDay>>

\* a keyword inside a word drops the holiday; all the others are posted
C22_WitnessInsideWord ==
    /\ jobRet # None
    /\ jobArgs[1].cfg.HolidayFeedURL /\ jobArgs[1].cfg.MaxHolidays = MaxFeedHolidays + 1
    /\ jobArgs[1].holidays.holidays = <<WaDay, AwardDay, PizzaDay>>
    /\ PostedHolidays(CallsTo("slack")[1].body) = <<WaDay, PizzaDay>>

\* no holiday is posted for a MaxHolidays that is not positive
C22_WitnessNone ==
    /\ jobRet # None
    /\ jobArgs[1].cfg.HolidayFeedURL /\ jobArgs[1].cfg.MaxHolidays = 0 - 1
    /\ jobArgs[1].holidays.holidays = <<PizzaDay>>
    /\ Len(CallsTo("slack")) = 1
    /\ PostedHolidays(CallsTo("slack")[1].body) = <<>>

\* C23: of a text with several fenced regions extractJSON returns the
\* interior of the region that opens first, whichever of the regions has
\* the tag json
C23_ExtractJSONReturnsEarliestRegion ==
    extracted # None =>
        \A tag1 \in {<<>>, <<"j", "s", "o", "n">>}, doc1 \in RegionDocuments,
           tag2 \in {<<>>, <<"j", "s", "o", "n">>}, doc2 \in RegionDocuments :
              response = TwoRegions(tag1, doc1, tag2, doc2)
                 => extracted[1] = <<"\n", doc1.text, "\n">>

\* what holds instead: the first region with the tag json if there is
\* one, the first region otherwise
C23_ExtractJSONPrefersTaggedRegion ==
    extracted # None =>
        \A tag1 \in {<<>>, <<"j", "s", "o", "n">>}, doc1 \in RegionDocuments,
           tag2 \in {<<>>, <<"j", "s", "o", "n">>}, doc2 \in RegionDocuments :
              response = TwoRegions(tag1, doc1, tag2, doc2)
                 => extracted[1] = IF tag1 = <<>> /\ tag2 # <<>>
                                   THEN <<"\n", doc2.text, "\n">>
                                   ELSE <<"\n", doc1.text, "\n">>

\* the places of a message that hold a block of the type
Places(message, type) == {i \in 1..Len(message) : message[i].type = type}

\* the message has the blocks of the events and of the holidays at their
\* places: first is the place before the first event section
WellFormed(message, events, holidays, first) ==
    /\ Len(message) = first + (IF events = <<>> THEN 0 ELSE 2 * Len(events) - 1) + 1
    /\ message[1].type = "header" /\ message[2].type = "divider"
    /\ holidays # <<>> =>
          /\ message[3] = [type |-> "section", text |-> <<"Today's Fun Holidays">>]
          /\ message[4].type = "section"
          /\ Len(message[4].text) = 3 * Len(holidays) - 1
          /\ \A i \in 1..Len(holidays) :
                /\ message[4].text[3 * i - 2] = "bullet"
                /\ message[4].text[3 * i - 1] = holidays[i]
                /\ i < Len(holidays) => message[4].text[3 * i] = "\n"
          /\ message[5].type = "divider"
    /\ \A i \in 1..Len(events) :
          /\ message[first + 2 * i - 1] = [type |-> "section", text |-> <<"event", events[i]>>]
          /\ i < Len(events) => message[first + 2 * i].type = "divider"
    /\ Places(message, "context") = {Len(message)}
    /\ Places(message, "header") = {1}

C24_WitnessNoHoliday ==
    /\ Len(requests) = 1
    /\ postArgs[1].events = <<1>> /\ postArgs[1].holidays = <<>>
    /\ [i \in 1..Len(requests[1]) |-> requests[1][i].type]
          = <<"header", "divider", "section", "context">>

\* the number of requests of the job that are the request c
Requests(c) == Cardinality({k \in 1..Len(calls) : calls[k] = c})

\* C25: no request is made again: in one job invocation each configured
\* feed URL gets at most one GET, the LLM endpoint at most one request and
\* the webhook at most one POST, whether the request fails or not
C25_NoRetry ==
    jobRet # None =>
        /\ \A k \in 1..Len(calls) :
              calls[k].to = "feed" => calls[k].body \in 1..Len(jobArgs[1].feeds)
        /\ \A i \in 1..Len(jobArgs[1].feeds) : Requests(Call("feed", i)) = 1
        /\ \A to \in {"claude", "slack"} : Len(CallsTo(to)) <= 1
        /\ FetchSucceeded => Len(CallsTo("claude")) = 1
        /\ FetchSucceeded /\ SelectionSucceeded /\ jobArgs[1].urlValid
              => Len(CallsTo("slack")) = 1

\* a feed failed and the POST failed: one GET for each feed, one request
\* to the LLM, one POST
C25_Witness ==
    /\ jobRet = <<"failed to make request">>
    /\ Len(jobArgs[1].feeds) = 2 /\ jobArgs[1].feeds[1].err
    /\ [i \in 1..Len(calls) |-> calls[i].to] = <<"feed", "feed", "claude", "slack">>

\* the request to the LLM failed: one request to it, none after it
C25_WitnessClaudeFailed ==
    /\ jobRet = <<"failed to call Claude API">>
    /\ jobArgs[1].claude.err = "do"
    /\ [i \in 1..Len(calls) |-> calls[i].to] = <<"feed", "claude">>

\* the request was transported, the status is 200, the body deserializes
\* and its content array is not empty
Answered(reply) ==
    /\ reply.err = "nil" /\ reply.status = 200
    /\ reply.body.valid /\ reply.body.content # <<>>

\* C26: callClaudeAPI returns the text of the first content block exactly
\* when the request was transported, the status is 200, the body
\* deserializes and the content array is not empty; a transport failure, a
\* status other than 200 and an empty content array each give an error,
\* with a message of its own; SelectEvents then returns an error and no
\* events
C26_CallClaudeAPI ==
    /\ answer # None =>
          /\ answer[1].err = "nil" <=> Answered(selectArgs[1].reply)
          /\ Answered(selectArgs[1].reply)
                => answer[1].text = selectArgs[1].reply.body.content[1]
          /\ ~Answered(selectArgs[1].reply) => answer[1].text = <<>>
          /\ selectArgs[1].reply.err = "do" => answer[1].err = "failed to make request"
          /\ selectArgs[1].reply.err = "nil" /\ selectArgs[1].reply.status # 200
                => answer[1].err = "API request failed with status"
          /\ (/\ selectArgs[1].reply.err = "nil" /\ selectArgs[1].reply.status = 200
              /\ selectArgs[1].reply.body.valid /\ selectArgs[1].reply.body.content = <<>>)
                => answer[1].err = "no content in response"
    /\ selectRet # None /\ selectArgs[1].events # <<>> /\ ~Answered(selectArgs[1].reply)
          => selectRet[1].err = "failed to call Claude API" /\ selectRet[1].events = <<>>

\* the text of the first of two content blocks was returned
C26_Witness ==
    /\ answer # None /\ answer[1].err = "nil"
    /\ Len(selectArgs[1].reply.body.content) = 2
    /\ answer[1].text = selectArgs[1].reply.body.content[1]

\* a status other than 200: an error from both
C26_WitnessStatus ==
    /\ answer # None /\ selectRet # None
    /\ selectArgs[1].reply.status = 500 /\ selectArgs[1].events # <<>>
    /\ answer[1].err = "API request failed with status"
    /\ selectRet[1].err = "failed to call Claude API"

\* the job reached the post and its request was answered with status 200
Answered200 ==
    /\ Len(CallsTo("slack")) = 1
    /\ ~jobArgs[1].slack.err /\ jobArgs[1].slack.status = 200

\* C27 (as stated): PostEventsWithHolidays returns nil exactly when the
\* webhook answered with status 200; a transport error and a status other
\* than 200 give an error, which the job returns
C27_NilIffStatus200 ==
    jobRet # None /\ FetchSucceeded /\ SelectionSucceeded =>
        /\ jobRet[1] = "nil" <=> Answered200
        /\ Len(CallsTo("slack")) = 1 /\ jobArgs[1].slack.err
              => jobRet[1] = "failed to make request"
        /\ Len(CallsTo("slack")) = 1 /\ ~jobArgs[1].slack.err /\ jobArgs[1].slack.status # 200
              => jobRet[1] = "Slack API request failed"

\* C27 (amended): PostEventsWithHolidays returns nil exactly when the
\* webhook answered with status 200 and the body of the answer was read; a
\* transport error, a failed read of the body and a status other than 200
\* give an error, which the job returns
C27_NilIffStatus200AndBodyRead ==
    jobRet # None /\ FetchSucceeded /\ SelectionSucceeded =>
        /\ jobRet[1] = "nil" <=> Answered200 /\ jobArgs[1].slack.read
        /\ Len(CallsTo("slack")) = 1 /\ jobArgs[1].slack.err
              => jobRet[1] = "failed to make request"
        /\ Len(CallsTo("slack")) = 1 /\ ~jobArgs[1].slack.err /\ ~jobArgs[1].slack.read
              => jobRet[1] = "failed to read response"
        /\ (/\ Len(CallsTo("slack")) = 1 /\ ~jobArgs[1].slack.err
            /\ jobArgs[1].slack.read /\ jobArgs[1].slack.status # 200)
              => jobRet[1] = "Slack API request failed"

\* the webhook answered 500 and the job returned the poster's error
C27_Witness ==
    /\ jobRet = <<"Slack API request failed">>
    /\ Len(CallsTo("slack")) = 1
    /\ ~jobArgs[1].slack.err /\ jobArgs[1].slack.read /\ jobArgs[1].slack.status = 500

\* the webhook answered 200 and the read of the body failed
C27_WitnessBodyNotRead ==
    /\ jobRet = <<"failed to read response">>
    /\ Answered200 /\ ~jobArgs[1].slack.read

\* the webhook answered 200 and the job returned nil
C27_WitnessPosted ==
    /\ jobRet = <<"nil">>
    /\ Answered200 /\ jobArgs[1].slack.read
    /\ ~jobArgs[1].cfg.HolidayFeedURL /\ Len(jobArgs[1].feeds) = 1

C28_WitnessFewer ==
    /\ selectRet # None
    /\ selectArgs[1].maxEvents = 3
    /\ selectRet[1].err = "nil" /\ selectRet[1].events = <<1>>

\* the goroutine is blocked in the select of StartAt or of Start
AtWait == schedPC \in {"wait_first", "wait_tick"}

\* the timer of StartAt has fired or a tick is in ticker.C
Due ==
    \/ schedPC = "wait_first" /\ now >= timer
    \/ schedPC = "wait_tick" /\ tickerC

\* C29: in scheduled mode, once ctx is cancelled a job run starts only at
\* a wait point where the timer or the tick is due together with the
\* cancellation, and at most one does: when a run ends under a cancelled
\* ctx no tick is due, and none comes due at a wait point under a
\* cancelled ctx; at a wait point with the cancellation pending and neither
\* timer nor tick due the scheduler returns without starting a job
C29_AtMostOneRunAfterCancel ==
    [][~runOnce /\ ctxDone =>
          /\ Len(runs') > Len(runs) => AtWait /\ Due /\ Len(runs') = Len(runs) + 1
          /\ schedPC = "job" /\ schedPC' # "job" => schedPC' = "wait_tick" /\ ~tickerC'
          /\ AtWait => now' = now /\ (tickerC' => tickerC)
          /\ AtWait /\ ~Due /\ schedPC' # schedPC
                => /\ schedPC' = "returned" /\ runs' = runs
                   /\ startRet' = <<"canceled">>]_vars

\* no job run starts once ctx is cancelled
C29_NoRunAfterCancel ==
    [][~runOnce /\ ctxDone => Len(runs') = Len(runs)]_vars

\* a scheduled run was started at the instant of the tick under a ctx that
\* is cancelled, and no tick is left
C29_Witness ==
    /\ ~runOnce /\ ctxDone /\ schedPC = "job"
    /\ Len(runs) = 2 /\ runs[2].kind = "scheduled" /\ runs[2].start = now
    /\ ~tickerC

\* the scheduler returned from a wait point under a cancelled ctx with no
\* tick due, after the initial run only
C29_WitnessReturned ==
    /\ ~runOnce /\ ctxDone /\ schedPC = "returned"
    /\ startRet = <<"canceled">>
    /\ Len(runs) = 1 /\ runs[1].end # NoTime

\* the tag-stripping loop makes one more iteration on s
HasTag(s) ==
    \E i \in 1..Len(s) : s[i] = "<" /\ \E j \in (i + 1)..Len(s) : s[j] = ">"

\* every iteration of the tag-stripping loop from s on shortens the string
RECURSIVE TagLoopShortens(_)
TagLoopShortens(s) ==
    IF ~HasTag(s) THEN TRUE
    ELSE LET start == Index(s, <<"<">>)
             next  == CutTag(s, start, Index(SliceFrom(s, start), <<">">>))
         IN  Len(next) < Len(s) /\ TagLoopShortens(next)

\* every iteration of the newline-collapsing loop from s on shortens the
\* string
RECURSIVE NewlineLoopShortens(_)
NewlineLoopShortens(s) ==
    IF ~Contains(s, <<"\n", "\n", "\n">>) THEN TRUE
    ELSE LET next == ReplaceAll(s, <<"\n", "\n", "\n">>, <<"\n", "\n">>)
         IN  Len(next) < Len(s) /\ NewlineLoopShortens(next)

\* C30: cleanHTML terminates on every input, each iteration of its two
\* loops shortening the string; its result has no '<' with a '>' after
\* it, no three newlines in a row and no white space at its ends
C30_CleanHTMLResult ==
    cleaned # None =>
        /\ TagLoopShortens(ReplaceBreaks(html))
        /\ NewlineLoopShortens(TrimSpace(RemoveTags(ReplaceBreaks(html))))
        /\ ~HasTag(cleaned[1])
        /\ \A i \in 1..(Len(cleaned[1]) - 2) :
              ~(cleaned[1][i] = "\n" /\ cleaned[1][i + 1] = "\n" /\ cleaned[1][i + 2] = "\n")
        /\ cleaned[1] # <<>> =>
              /\ cleaned[1][1] \notin {" ", "\t", "\n", "\r"}
              /\ cleaned[1][Len(cleaned[1])] \notin {" ", "\t", "\n", "\r"}

\* a tag and the leading space removed, a '<' without '>' kept
C30_Witness ==
    /\ cleaned # None
    /\ html = <<" ", "<", "a", ">", "a", "<">>
    /\ cleaned[1] = <<"a", "<">>

\* four newlines in a row collapsed to two in two iterations
C30_WitnessNewlines ==
    /\ cleaned # None
    /\ html = <<"a", "\n", "\n", "\n", "\n", "a">>
    /\ cleaned[1] = <<"a", "\n", "\n", "a">>

=============================================================================
